---- MODULE Spec2Model ----
(***************************************************************************)
(* Capital Compass: the data pipeline (parseCSV, processData,              *)
(* extractInvestors, exportCompaniesToCSV) as a state machine.             *)
(*                                                                         *)
(* Strings are TLA+ strings handled character by character (Len, SubSeq,   *)
(* \o).  JavaScript numbers are exact rationals plus NaN: IEEE rounding    *)
(* error is not modelled, NaN and its propagation are.                     *)
(***************************************************************************)
EXTENDS Integers, Sequences, FiniteSets, Bags, TLC

VARIABLES
  csvText,   \* the delimited text in flight: an upload's text, or the text the exporter built
  parsed,    \* what parseCSV returned for csvText
  rawData,   \* the batch of raw records handed to processData
  result,    \* what processData returned
  threw,     \* TRUE once an operation of the pipeline has thrown
  args,      \* the arguments of a helper called on its own
  returned,  \* what the helper returned for args
  request,   \* the request of a generate function to the text service
  app,               \* App: the displayed result set and the uploads on their way to it
  companyList,       \* CompanyList: pagination, search, sorting and the requests it started
  investorAnalysis,  \* InvestorAnalysis: the background checks it started
  scoreDistribution, \* ScoreDistribution: the metric and the filter selected
  trendChart         \* TrendChart: the themes selected

pipelineVars == <<csvText, parsed, rawData, result, threw>>
callVars == <<args, returned, request>>
uiVars == <<app, companyList, investorAnalysis, scoreDistribution, trendChart>>
vars == <<csvText, parsed, rawData, result, threw, args, returned, request,
          app, companyList, investorAnalysis, scoreDistribution, trendChart>>

(***************************************************************************)
(* Bounds of the model.                                                    *)
(***************************************************************************)
\* longest text typed into the parser, in characters
MaxTextLen == 7
\* most raw records in one batch
MaxRecords == 2
MaxRangeLen == 6

(***************************************************************************)
(* Strings.                                                                *)
(***************************************************************************)
Char(s, i) == SubSeq(s, i, i)

Range(f) == {f[i] : i \in DOMAIN f}

\* The sequence f with its elements evaluated.  TLC keeps [i \in S |-> e]
\* unevaluated and evaluates e anew at every application; concatenation turns
\* it into a tuple of values.
AsTuple(f) == <<>> \o f

\* the characters String.prototype.trim removes, as far as they occur here
IsSpace(c) == c \in {" ", "\t", "\r", "\n"}

RECURSIVE TrimStart(_)
TrimStart(s) ==
  IF Len(s) > 0 /\ IsSpace(Char(s, 1)) THEN TrimStart(SubSeq(s, 2, Len(s))) ELSE s

RECURSIVE TrimEnd(_)
TrimEnd(s) ==
  IF Len(s) > 0 /\ IsSpace(Char(s, Len(s))) THEN TrimEnd(SubSeq(s, 1, Len(s) - 1)) ELSE s

\* String.prototype.trim
Trim(s) == TrimEnd(TrimStart(s))

\* s.replace(/^"|"$/g, ''): one quote at the start and one at the end, each
\* removed when present; a lone quote is consumed by the first alternative.
StripQuotes(s) ==
  LET a == IF Len(s) > 0 /\ Char(s, 1) = "\"" THEN SubSeq(s, 2, Len(s)) ELSE s
  IN  IF Len(a) > 0 /\ Char(a, Len(a)) = "\"" THEN SubSeq(a, 1, Len(a) - 1) ELSE a

\* s.split(sep) for a one-character separator: always at least one piece.
\* The text is halved and the pieces of the halves are joined at the seam, so
\* that the depth of the recursion stays logarithmic in the length.
RECURSIVE Split(_, _)
Split(s, sep) ==
  IF Len(s) <= 1 THEN (IF s = sep THEN <<"", "">> ELSE <<s>>)
  ELSE LET h == Len(s) \div 2
           l == Split(SubSeq(s, 1, h), sep)
           r == Split(SubSeq(s, h + 1, Len(s)), sep)
       IN  SubSeq(l, 1, Len(l) - 1) \o <<l[Len(l)] \o r[1]>> \o Tail(r)

\* parts.join(sep) (halving)
RECURSIVE Join(_, _)
Join(parts, sep) ==
  IF Len(parts) = 0 THEN ""
  ELSE IF Len(parts) = 1 THEN parts[1]
  ELSE LET h == Len(parts) \div 2
       IN  Join(SubSeq(parts, 1, h), sep) \o sep \o Join(SubSeq(parts, h + 1, Len(parts)), sep)

\* s.replace(/x/g, y) for a one-character x (halving, as Split does)
RECURSIVE ReplaceAll(_, _, _)
ReplaceAll(s, x, y) ==
  IF Len(s) <= 1 THEN (IF s = x THEN y ELSE s)
  ELSE LET h == Len(s) \div 2
       IN  ReplaceAll(SubSeq(s, 1, h), x, y) \o ReplaceAll(SubSeq(s, h + 1, Len(s)), x, y)

\* String.prototype.includes
Includes(s, sub) ==
  \E i \in 1..(Len(s) - Len(sub) + 1) : SubSeq(s, i, i + Len(sub) - 1) = sub

UpperAZ == "ABCDEFGHIJKLMNOPQRSTUVWXYZ"
LowerAZ == "abcdefghijklmnopqrstuvwxyz"

UpperLetters == {Char(UpperAZ, i) : i \in 1..26}
LowerLetters == {Char(LowerAZ, i) : i \in 1..26}

LowerChar(c) ==
  IF c \in UpperLetters
  THEN Char(LowerAZ, CHOOSE i \in 1..26 : Char(UpperAZ, i) = c)
  ELSE c

\* String.prototype.toLowerCase, for the ASCII letters (halving, as Split does)
RECURSIVE ToLowerCase(_)
ToLowerCase(s) ==
  IF Len(s) <= 1 THEN LowerChar(s)
  ELSE LET h == Len(s) \div 2
       IN  ToLowerCase(SubSeq(s, 1, h)) \o ToLowerCase(SubSeq(s, h + 1, Len(s)))

DigitChars == "0123456789"
Digits == {Char(DigitChars, i) : i \in 1..10}
IsDigit(c) == c \in Digits
DigitVal(c) == (CHOOSE i \in 1..10 : Char(DigitChars, i) = c) - 1

\* the decimal digits of a natural number
RECURSIVE NatToString(_)
NatToString(n) ==
  IF n < 10 THEN Char(DigitChars, n + 1)
  ELSE NatToString(n \div 10) \o Char(DigitChars, (n % 10) + 1)

(***************************************************************************)
(* Numbers: a JavaScript number is NaN, an exact rational n/d in lowest    *)
(* terms with d > 0, or an infinity (n = 1 or -1, d = 0).  MaxValue stands *)
(* for Number.MAX_VALUE: as in IEEE 754 arithmetic, a result just beyond   *)
(* it in magnitude is rounded to it and a result further out is an         *)
(* infinity.  Rounding below that magnitude and the sign of zero are not   *)
(* modelled.                                                               *)
(***************************************************************************)
MaxValue == 1000000000

\* the least magnitude that overflows (Number.MAX_VALUE plus half its last place)
OverflowAt == MaxValue + MaxValue \div 1000000

NaN == [nan |-> TRUE, n |-> 0, d |-> 1]

Abs(x) == IF x < 0 THEN -x ELSE x

\* Infinity (sign 1) and -Infinity (sign -1)
Infinity(sign) == [nan |-> FALSE, n |-> sign, d |-> 0]

Sign(n) == IF n < 0 THEN -1 ELSE 1

Num(n) == [nan |-> FALSE, n |-> n, d |-> 1]

RECURSIVE GCD(_, _)
GCD(a, b) == IF b = 0 THEN a ELSE GCD(b, a % b)

Rat(n, d) ==
  IF d = 0 THEN (IF n = 0 THEN NaN ELSE Infinity(Sign(n)))
  ELSE LET g == GCD(Abs(n), Abs(d))
           sgn == IF d < 0 THEN -1 ELSE 1
           nn == sgn * (n \div g)
           dd == sgn * (d \div g)
           whole == Abs(nn) \div dd
       IN  IF whole >= OverflowAt THEN Infinity(Sign(nn))
           ELSE IF whole >= MaxValue THEN Num(Sign(nn) * MaxValue)
           ELSE [nan |-> FALSE, n |-> nn, d |-> dd]

IsNaN(x) == x.nan

\* Number.isFinite(x)
IsFinite(x) == ~x.nan /\ x.d # 0

Neg(x) == IF x.nan THEN NaN ELSE [nan |-> FALSE, n |-> -x.n, d |-> x.d]

Add(x, y) ==
  IF x.nan \/ y.nan THEN NaN
  ELSE IF x.d = 0 /\ y.d = 0 THEN (IF x.n = y.n THEN x ELSE NaN)
  ELSE IF x.d = 0 THEN x
  ELSE IF y.d = 0 THEN y
  ELSE Rat(x.n * y.d + y.n * x.d, x.d * y.d)
Sub(x, y) == Add(x, Neg(y))
Mul(x, y) == IF x.nan \/ y.nan THEN NaN ELSE Rat(x.n * y.n, x.d * y.d)
Div(x, y) ==
  IF x.nan \/ y.nan THEN NaN
  ELSE IF y.d = 0 THEN (IF x.d = 0 THEN NaN ELSE Num(0))
  ELSE IF y.n = 0 THEN Rat(x.n, 0)
  ELSE IF x.d = 0 THEN Infinity(x.n * Sign(y.n))
  ELSE Rat(x.n * y.d, x.d * y.n)

\* the comparisons of JavaScript: every comparison with NaN is false
Lt(x, y) ==
  /\ ~x.nan /\ ~y.nan
  /\ IF x.d = 0 /\ y.d = 0 THEN x.n < y.n ELSE x.n * y.d < y.n * x.d
Le(x, y) ==
  /\ ~x.nan /\ ~y.nan
  /\ IF x.d = 0 /\ y.d = 0 THEN x.n <= y.n ELSE x.n * y.d <= y.n * x.d
\* x === y
StrictEq(x, y) == ~x.nan /\ ~y.nan /\ x = y

\* Math.max(a, b) and Math.min(a, b): NaN if either is NaN
Max2(x, y) == IF x.nan \/ y.nan THEN NaN ELSE IF Lt(x, y) THEN y ELSE x
Min2(x, y) == IF x.nan \/ y.nan THEN NaN ELSE IF Lt(y, x) THEN y ELSE x

\* Math.max(...xs, last) and Math.min(...xs, last)
RECURSIVE MathMax(_, _)
MathMax(xs, last) == IF Len(xs) = 0 THEN last ELSE Max2(xs[1], MathMax(Tail(xs), last))

RECURSIVE MathMin(_, _)
MathMin(xs, last) == IF Len(xs) = 0 THEN last ELSE Min2(xs[1], MathMin(Tail(xs), last))

\* the value of the longest run of digits of s from position i on, and the
\* position after it
RECURSIVE ScanDigits(_, _, _)
ScanDigits(s, i, acc) ==
  IF i <= Len(s) /\ IsDigit(Char(s, i))
  THEN ScanDigits(s, i + 1, acc * 10 + DigitVal(Char(s, i)))
  ELSE [val |-> acc, next |-> i]

\* the sign at the head of a trimmed numeric string
SignOf(t) == IF Len(t) > 0 /\ Char(t, 1) = "-" THEN -1 ELSE 1
AfterSign(t) == IF Len(t) > 0 /\ Char(t, 1) \in {"-", "+"} THEN 2 ELSE 1

\* parseInt(s): leading white space, a sign, then the longest run of decimal
\* digits; NaN when there is no digit.  (A 0x prefix is not modelled.)
parseInt(s) ==
  LET t == TrimStart(s)
      from == AfterSign(t)
      ds == ScanDigits(t, from, 0)
  IN  IF ds.next = from THEN NaN ELSE Num(SignOf(t) * ds.val)

RECURSIVE Pow10(_)
Pow10(k) == IF k = 0 THEN 1 ELSE 10 * Pow10(k - 1)

\* parseFloat(s): leading white space, a sign, digits with an optional
\* fraction; NaN when no digit starts the number.  (Exponents and the
\* literal Infinity are not modelled.)
parseFloat(s) ==
  LET t == TrimStart(s)
      from == AfterSign(t)
      ip == ScanDigits(t, from, 0)
      hasDot == ip.next <= Len(t) /\ Char(t, ip.next) = "."
      fp == IF hasDot THEN ScanDigits(t, ip.next + 1, 0) ELSE [val |-> 0, next |-> ip.next]
      fracLen == IF hasDot THEN fp.next - (ip.next + 1) ELSE 0
  IN  IF ip.next = from /\ fracLen = 0 THEN NaN
      ELSE Rat(SignOf(t) * (ip.val * Pow10(fracLen) + fp.val), Pow10(fracLen))

\* Number.prototype.toFixed(2): "NaN", or the sign and the value rounded to
\* hundredths, ties away from zero
toFixed2(x) ==
  IF x.nan THEN "NaN"
  ELSE LET a == Abs(x.n)
           h == (2 * a * 100 + x.d) \div (2 * x.d)
           frac == h % 100
       IN  (IF x.n < 0 THEN "-" ELSE "") \o NatToString(h \div 100) \o "."
           \o (IF frac < 10 THEN "0" ELSE "") \o NatToString(frac)

(***************************************************************************)
(* parseCSV.                                                               *)
(***************************************************************************)
\* The body of the loop over the characters of one data line: a quote flips
\* inQuote and is not kept, a comma outside quotes pushes the cell, anything
\* else is appended to the cell.
scanChar(st, char) ==
  IF char = "\"" THEN [st EXCEPT !.inQuote = ~st.inQuote]
  ELSE IF char = "," /\ ~st.inQuote
       THEN [st EXCEPT !.row = Append(st.row, StripQuotes(Trim(st.currentCell))),
                       !.currentCell = ""]
       ELSE [st EXCEPT !.currentCell = st.currentCell \o char]

\* The loop over the characters lo..hi, left to right.  The range is halved
\* and the state after the first half is evaluated before the second half is
\* entered, which keeps the evaluation shallow; the order of the steps is the
\* loop's.
RECURSIVE scanChars(_, _, _, _)
scanChars(st, line, lo, hi) ==
  IF lo > hi THEN st
  ELSE IF lo = hi THEN scanChar(st, Char(line, lo))
  ELSE LET mid == (lo + hi) \div 2
           half == scanChars(st, line, lo, mid)
       IN  IF half.inQuote \in BOOLEAN THEN scanChars(half, line, mid + 1, hi) ELSE half

\* the row of one data line: the last cell is pushed after the loop
parseRow(line) ==
  LET st == scanChars([row |-> <<>>, inQuote |-> FALSE, currentCell |-> ""], line, 1, Len(line))
  IN  Append(st.row, StripQuotes(Trim(st.currentCell)))

\* text.split('\n').filter(l => l.trim())
csvLines(text) == SelectSeq(Split(text, "\n"), LAMBDA l : Trim(l) # "")

\* lines[0].split(',').map(h => h.trim().replace(/^"|"$/g, ''))
csvHeaders(line) == LET hs == Split(line, ",") IN [k \in DOMAIN hs |-> StripQuotes(Trim(hs[k]))]

\* obj = {}; headers.forEach((h, idx) => obj[h] = row[idx]): a repeated header
\* keeps the value of its last column
rowObject(headers, row) ==
  [h \in Range(headers) |->
     row[CHOOSE k \in DOMAIN headers :
           headers[k] = h /\ \A j \in DOMAIN headers : headers[j] = h => j <= k]]

\* a slip: rows with more cells than the header has columns are kept
RECURSIVE parseDataLinesKeepLong(_, _, _)
parseDataLinesKeepLong(lines, headers, i) ==
  IF i > Len(lines) THEN <<>>
  ELSE LET row == parseRow(lines[i])
       IN  (IF Len(row) >= Len(headers) THEN <<rowObject(headers, row)>> ELSE <<>>)
           \o parseDataLinesKeepLong(lines, headers, i + 1)

RECURSIVE parseDataLines(_, _, _)
parseDataLines(lines, headers, i) ==
  IF i > Len(lines) THEN <<>>
  ELSE LET row == parseRow(lines[i])
       IN  (IF Len(row) = Len(headers) THEN <<rowObject(headers, row)>> ELSE <<>>)
           \o parseDataLines(lines, headers, i + 1)

parseCSV(text) ==
  LET lines == csvLines(text)
  IN  IF Len(lines) < 2 THEN <<>>
      ELSE parseDataLines(lines, csvHeaders(lines[1]), 2)

(***************************************************************************)
(* Raw records: a function from the column names present to their text.    *)
(* A column the record lacks reads as undefined.                           *)
(***************************************************************************)
\* c[col] is truthy: present and not the empty string
Truthy(c, col) == col \in DOMAIN c /\ c[col] # ""

\* c[col] || dflt
OrElse(c, col, dflt) == IF Truthy(c, col) THEN c[col] ELSE dflt

(***************************************************************************)
(* parseEmployeeCount, normalize, extractInvestors.                        *)
(***************************************************************************)
\* a slip: the bounds of a range parsed with their commas
parseEmployeeCountWithCommas(c) ==
  IF ~Truthy(c, "Number of Employees") THEN Num(0)
  ELSE LET range == c["Number of Employees"]
       IN  IF Includes(range, "+") THEN Add(parseInt(range), Num(10))
           ELSE IF Includes(range, "-")
                THEN LET parts == Split(range, "-")
                     IN  Div(Add(parseInt(parts[1]), parseInt(parts[2])), Num(2))
                ELSE LET v == parseInt(range) IN IF v.nan THEN Num(0) ELSE v

parseEmployeeCount(c) ==
  IF ~Truthy(c, "Number of Employees") THEN Num(0)
  ELSE LET range == c["Number of Employees"]
       IN  IF Includes(range, "+") THEN Add(parseInt(range), Num(10))
           ELSE IF Includes(range, "-")
                THEN LET parts == Split(range, "-")
                         min == parseInt(ReplaceAll(parts[1], ",", ""))
                         max == parseInt(ReplaceAll(parts[2], ",", ""))
                     IN  Div(Add(min, max), Num(2))
                ELSE LET v == parseInt(range) IN IF v.nan THEN Num(0) ELSE v

normalize(val, min, max) ==
  IF StrictEq(max, min) THEN Num(0) ELSE Div(Sub(val, min), Sub(max, min))

\* [...new Set(xs)]: the first occurrence of each value, in order
Dedupe(xs) ==
  LET firsts == SelectSeq([i \in DOMAIN xs |-> i],
                          LAMBDA i : \A j \in 1..(i - 1) : xs[j] # xs[i])
  IN  [k \in DOMAIN firsts |-> xs[firsts[k]]]

InvestorColumns == <<"Top 5 Investors", "Lead Investors", "Investors">>

\* a slip: the names not deduplicated
extractInvestorsWithRepeats(row) ==
  LET present == SelectSeq(InvestorColumns, LAMBDA col : Truthy(row, col))
      rawList == Join([k \in DOMAIN present |-> row[present[k]]], ",")
      pieces == Split(rawList, ",")
      names == [k \in DOMAIN pieces |-> StripQuotes(Trim(pieces[k]))]
  IN  SelectSeq(names, LAMBDA x : Len(x) > 2 /\ ~Includes(ToLowerCase(x), "undisclosed"))

extractInvestors(row) ==
  LET present == SelectSeq(InvestorColumns, LAMBDA col : Truthy(row, col))
      rawList == Join([k \in DOMAIN present |-> row[present[k]]], ",")
      pieces == Split(rawList, ",")
      names == [k \in DOMAIN pieces |-> StripQuotes(Trim(pieces[k]))]
  IN  Dedupe(SelectSeq(names,
        LAMBDA x : Len(x) > 2 /\ ~Includes(ToLowerCase(x), "undisclosed")))

(***************************************************************************)
(* processData, step 1: the raw numericals and the batch bounds.           *)
(***************************************************************************)
fundAmtOf(c) == parseFloat(OrElse(c, "Total Funding Amount (in USD)", "0"))
numArticlesOf(c) == parseInt(OrElse(c, "Number of Articles", "0"))
rankOf(c) == parseInt(ReplaceAll(OrElse(c, "CB Rank (Company)", "100000"), ",", ""))
numRoundsOf(c) == parseInt(OrElse(c, "Number of Funding Rounds", "1"))

processedTemp(rawRecords) ==
  AsTuple([k \in DOMAIN rawRecords |->
     [fundAmt |-> fundAmtOf(rawRecords[k]), articles |-> numArticlesOf(rawRecords[k]),
      rank |-> rankOf(rawRecords[k]), rounds |-> numRoundsOf(rawRecords[k])]])

batchBounds(temp) ==
  LET fundingAmounts == [k \in DOMAIN temp |-> temp[k].fundAmt]
      articleCounts == [k \in DOMAIN temp |-> temp[k].articles]
      ranks == [k \in DOMAIN temp |-> temp[k].rank]
      rounds == [k \in DOMAIN temp |-> temp[k].rounds]
  IN  [maxFund |-> MathMax(fundingAmounts, Num(1)),
       minFund |-> MathMin(fundingAmounts, Num(0)),
       maxArticles |-> MathMax(articleCounts, Num(1)),
       maxRounds |-> MathMax(rounds, Num(1)),
       minRank |-> MathMin(ranks, Num(1)),
       maxRank |-> MathMax(ranks, Num(100000))]

(***************************************************************************)
(* processData, step 2: themes and scores of one company.                  *)
(***************************************************************************)
IsWordChar(c) == IsDigit(c) \/ c = "_" \/ c \in LowerLetters \/ c \in UpperLetters

\* /ai\b/: "ai" followed by the end of the text or by a non-word character
MatchesAiWord(text) ==
  \E i \in 1..(Len(text) - 1) :
     /\ SubSeq(text, i, i + 1) = "ai"
     /\ (i + 1 = Len(text) \/ ~IsWordChar(Char(text, i + 2)))

IncludesAny(text, words) == \E w \in words : Includes(text, w)

AIWords == {"artificial intelligence", "machine learning", "deep learning", "llm", "nlp",
            "genai", "neural network", "gpt", "computer vision"}
ClimateWords == {"climate", "carbon", "emission", "renewable", "solar", "battery",
                 "sustainable", "energy", "clean tech", "green", "environment", "wind", "hydro"}
FintechWords == {"fintech", "payment", "lending", "banking", "crypto", "wallet", "neobank",
                 "insurance", "wealth", "trading", "blockchain", "defi"}
HealthcareWords == {"biotech", "health", "pharma", "medical", "therapeutics", "biology",
                    "patient", "doctor", "care", "clinic", "drug", "genomic", "life science"}
SaaSWords == {"enterprise", "saas", "b2b", "software", "cloud", "automation", "workflow",
              "productivity", "crm", "erp", "platform", "infrastructure", "api"}
ConsumerWords == {"b2c", "consumer", "retail", "e-commerce", "social", "app", "marketplace",
                  "brand", "fashion", "food", "d2c", "subscription", "media"}

descriptionText(c) ==
  ToLowerCase(OrElse(c, "Description", "") \o " " \o OrElse(c, "Full Description", ""))

\* a slip: the categories tried in order, the first match taken alone
detectThemesFirstOnly(c) ==
  LET text == descriptionText(c)
      isAI == MatchesAiWord(text) \/ IncludesAny(text, AIWords)
      isClimate == ~isAI /\ IncludesAny(text, ClimateWords)
      isFintech == ~isAI /\ ~isClimate /\ IncludesAny(text, FintechWords)
      isHealthcare == ~isAI /\ ~isClimate /\ ~isFintech /\ IncludesAny(text, HealthcareWords)
      isSaaS == ~isAI /\ ~isClimate /\ ~isFintech /\ ~isHealthcare
                  /\ IncludesAny(text, SaaSWords)
  IN  [ai |-> isAI, climate |-> isClimate, fintech |-> isFintech, healthcare |-> isHealthcare,
       saas |-> isSaaS,
       consumer |-> ~isAI /\ ~isClimate /\ ~isFintech /\ ~isHealthcare /\ ~isSaaS
                      /\ IncludesAny(text, ConsumerWords)]

detectThemes(c) ==
  LET text == descriptionText(c)
  IN  [ai |-> MatchesAiWord(text) \/ IncludesAny(text, AIWords),
       climate |-> IncludesAny(text, ClimateWords),
       fintech |-> IncludesAny(text, FintechWords),
       healthcare |-> IncludesAny(text, HealthcareWords),
       saas |-> IncludesAny(text, SaaSWords),
       consumer |-> IncludesAny(text, ConsumerWords)]

anyTheme(t) == t.ai \/ t.climate \/ t.fintech \/ t.healthcare \/ t.saas \/ t.consumer

\* tenths and hundredths, the weights of the scores
Tenths(k) == Rat(k, 10)

fundingScore(t, b) ==
  LET normAmt == normalize(t.fundAmt, b.minFund, b.maxFund)
      normRounds == normalize(t.rounds, Num(0), b.maxRounds)
  IN  Mul(Add(Mul(normAmt, Tenths(7)), Mul(normRounds, Tenths(3))), Num(100))

opsScore(c) ==
  LET employeeMedian == parseEmployeeCount(c)
      normEmp == Div(Min2(employeeMedian, Num(500)), Num(500))
      isActive == IF OrElse(c, "Operating Status", "Active") = "Active" THEN Num(1) ELSE Num(0)
  IN  Mul(Add(Mul(normEmp, Tenths(6)), Mul(isActive, Tenths(4))), Num(100))

\* a slip: the weights of rank and articles exchanged
brandTrendScoreSwapped(t, b, themes) ==
  LET normRank == Sub(Num(1), normalize(t.rank, b.minRank, b.maxRank))
      normArticles == normalize(t.articles, Num(0), b.maxArticles)
      keywordBonus == IF anyTheme(themes) THEN Tenths(2) ELSE Num(0)
  IN  Mul(Min2(Add(Add(Mul(normRank, Tenths(3)), Mul(normArticles, Tenths(5))), keywordBonus),
               Num(1)),
          Num(100))

brandTrendScore(t, b, themes) ==
  LET normRank == Sub(Num(1), normalize(t.rank, b.minRank, b.maxRank))
      normArticles == normalize(t.articles, Num(0), b.maxArticles)
      keywordBonus == IF anyTheme(themes) THEN Tenths(2) ELSE Num(0)
  IN  Mul(Min2(Add(Add(Mul(normRank, Tenths(5)), Mul(normArticles, Tenths(3))), keywordBonus),
               Num(1)),
          Num(100))

\* three ifs in sequence, each overwriting the one before
stageScore(c) ==
  LET stage == ToLowerCase(OrElse(c, "Last Funding Type", ""))
      s1 == IF Includes(stage, "series a") THEN Tenths(7) ELSE Tenths(3)
      s2 == IF Includes(stage, "series b") \/ Includes(stage, "series c") THEN Tenths(9) ELSE s1
  IN  IF Includes(stage, "ipo") \/ Includes(stage, "acquired") THEN Tenths(5) ELSE s2

potentialScore(c, funding, brandTrend) ==
  Mul(Add(Add(Mul(stageScore(c), Tenths(4)),
              Mul(Div(funding, Num(100)), Tenths(3))),
          Mul(Div(brandTrend, Num(100)), Tenths(3))),
      Num(100))

\* a slip: the mean taken over three of the four scores
comprehensiveScoreWithoutPotential(funding, operations, brandTrend, potential) ==
  Div(Add(Add(funding, operations), brandTrend), Num(4))

comprehensiveScore(funding, operations, brandTrend, potential) ==
  Div(Add(Add(Add(funding, operations), brandTrend), potential), Num(4))

scoreCompany(c, idx, t, b) ==
  LET themes == detectThemes(c)
      funding == fundingScore(t, b)
      operations == opsScore(c)
      brandTrend == brandTrendScore(t, b, themes)
      potential == potentialScore(c, funding, brandTrend)
  IN  [raw |-> c,
       derived |-> t,
       id |-> "comp-" \o NatToString(idx),
       scores |-> [funding |-> funding, operations |-> operations, brandTrend |-> brandTrend,
                   potential |-> potential,
                   comprehensive |-> comprehensiveScore(funding, operations, brandTrend, potential)],
       themes |-> themes]

scoreAll(rawRecords) ==
  LET temp == processedTemp(rawRecords)
      b == batchBounds(temp)
  IN  AsTuple([k \in DOMAIN rawRecords |-> scoreCompany(rawRecords[k], k - 1, temp[k], b)])

(***************************************************************************)
(* processData, step 4: the investors.  A Map is a sequence of entries in  *)
(* insertion order.                                                        *)
(***************************************************************************)
ThemeNames == <<"AI", "Climate", "Fintech", "Healthcare", "SaaS", "Consumer">>

themeFlag(t, name) ==
  CASE name = "AI" -> t.ai
    [] name = "Climate" -> t.climate
    [] name = "Fintech" -> t.fintech
    [] name = "Healthcare" -> t.healthcare
    [] name = "SaaS" -> t.saas
    [] name = "Consumer" -> t.consumer

activeThemes(t) == SelectSeq(ThemeNames, LAMBDA name : themeFlag(t, name))

\* c["Organization Name"], which may be undefined
orgName(c) ==
  IF "Organization Name" \in DOMAIN c
  THEN [defined |-> TRUE, text |-> c["Organization Name"]]
  ELSE [defined |-> FALSE, text |-> ""]

\* a slip: the portfolio kept as a list, one entry for every deal
portfolioPush(portfolio, key, themes) == Append(portfolio, [name |-> key, themes |-> themes])

\* portfolio.set(key, themes): an existing key keeps its place
portfolioSet(portfolio, key, themes) ==
  IF \E k \in DOMAIN portfolio : portfolio[k].name = key
  THEN [k \in DOMAIN portfolio |->
          IF portfolio[k].name = key THEN [name |-> key, themes |-> themes] ELSE portfolio[k]]
  ELSE Append(portfolio, [name |-> key, themes |-> themes])

newInvestorEntry(invName) ==
  [name |-> invName, count |-> 0,
   themeCounts |-> [k \in DOMAIN ThemeNames |-> 0], portfolio |-> <<>>]

\* the body of invs.forEach for one investor name of one company
addDeal(investorMap, invName, c) ==
  LET at == {k \in DOMAIN investorMap : investorMap[k].name = invName}
      entry == IF at = {} THEN newInvestorEntry(invName) ELSE investorMap[CHOOSE k \in at : TRUE]
      updated ==
        [name |-> invName,
         count |-> entry.count + 1,
         themeCounts |-> [k \in DOMAIN ThemeNames |->
                            entry.themeCounts[k] + (IF themeFlag(c.themes, ThemeNames[k]) THEN 1 ELSE 0)],
         portfolio |-> portfolioSet(entry.portfolio, orgName(c.raw), activeThemes(c.themes))]
  IN  IF at = {} THEN Append(investorMap, updated)
      ELSE [k \in DOMAIN investorMap |-> IF k \in at THEN updated ELSE investorMap[k]]

\* invs.forEach over the names lo..hi of one company, in order (halved as in
\* scanChars)
RECURSIVE addDeals(_, _, _, _, _)
addDeals(investorMap, invs, c, lo, hi) ==
  IF lo > hi THEN investorMap
  ELSE IF lo = hi THEN addDeal(investorMap, invs[lo], c)
  ELSE LET mid == (lo + hi) \div 2
           half == addDeals(investorMap, invs, c, lo, mid)
       IN  IF Len(half) > 0 THEN addDeals(half, invs, c, mid + 1, hi) ELSE half

\* a slip: the companies without a founding date are skipped
RECURSIVE buildInvestorMapOfDated(_, _)
buildInvestorMapOfDated(scored, k) ==
  IF k = 0 THEN <<>>
  ELSE LET invs == IF Truthy(scored[k].raw, "Founded Date")
                   THEN extractInvestors(scored[k].raw) ELSE <<>>
       IN  addDeals(buildInvestorMapOfDated(scored, k - 1), invs, scored[k], 1, Len(invs))

\* scored.forEach over the first k companies
RECURSIVE buildInvestorMap(_, _)
buildInvestorMap(scored, k) ==
  IF k = 0 THEN <<>>
  ELSE LET invs == extractInvestors(scored[k].raw)
       IN  addDeals(buildInvestorMap(scored, k - 1), invs, scored[k], 1, Len(invs))

\* xs.sort((a, b) => b.count - a.count): the stable sort by count, descending.
\* Element i goes behind every element with a greater count and behind the
\* earlier elements with the same count.
sortByCountDesc(xs) ==
  LET pos(i) == 1 + Cardinality({j \in DOMAIN xs :
                   xs[j].count > xs[i].count \/ (xs[j].count = xs[i].count /\ j < i)})
  IN  AsTuple([p \in DOMAIN xs |-> xs[CHOOSE i \in DOMAIN xs : pos(i) = p]])

\* .slice(0, n)
Slice0(xs, n) == SubSeq(xs, 1, IF Len(xs) < n THEN Len(xs) ELSE n)

\* how many themes an investor's topThemes keeps
TopThemes == 3
\* how many investors the list keeps
TopInvestors == 50

\* a slip: the tallies filtered and cut without being sorted
topThemesUnsorted(themeCounts) ==
  LET entries == [k \in DOMAIN ThemeNames |-> [name |-> ThemeNames[k], count |-> themeCounts[k]]]
      kept == Slice0(SelectSeq(entries, LAMBDA t : t.count > 0), TopThemes)
  IN  [k \in DOMAIN kept |-> kept[k].name]

topThemesOf(themeCounts) ==
  LET entries == [k \in DOMAIN ThemeNames |-> [name |-> ThemeNames[k], count |-> themeCounts[k]]]
      kept == Slice0(SelectSeq(sortByCountDesc(entries), LAMBDA t : t.count > 0), TopThemes)
  IN  [k \in DOMAIN kept |-> kept[k].name]

investorStat(entry) ==
  [name |-> entry.name, count |-> entry.count,
   topThemes |-> topThemesOf(entry.themeCounts), portfolio |-> entry.portfolio]

\* a slip: the list cut before it is sorted
rankInvestorsCutFirst(stats) == sortByCountDesc(Slice0(stats, TopInvestors))

rankInvestors(stats) == Slice0(sortByCountDesc(stats), TopInvestors)

investorsOf(scored) ==
  LET investorMap == buildInvestorMap(scored, Len(scored))
  IN  rankInvestors(AsTuple([k \in DOMAIN investorMap |-> investorStat(investorMap[k])]))

(***************************************************************************)
(* processData, the last step: scored.sort((a, b) => b.scores.comprehensive *)
(* - a.scores.comprehensive).  A comparator result of NaN counts as 0.     *)
(* With numbers only, the sort is the stable descending sort.  With a NaN  *)
(* among unequal scores the comparator is not a consistent comparison, and *)
(* the order the engine leaves is implementation-defined: any permutation. *)
(***************************************************************************)
\* the comparator's verdict "a and b compare equal"
comparesEqual(a, b) ==
  LET x == a.scores.comprehensive
      y == b.scores.comprehensive
  IN  x.nan \/ y.nan \/ x = y

insertByScore(sorted, x) ==
  LET p == Cardinality({i \in DOMAIN sorted :
                          ~Lt(sorted[i].scores.comprehensive, x.scores.comprehensive)})
  IN  SubSeq(sorted, 1, p) \o <<x>> \o SubSeq(sorted, p + 1, Len(sorted))

RECURSIVE sortByScoreDesc(_)
sortByScoreDesc(xs) ==
  IF Len(xs) = 0 THEN <<>>
  ELSE insertByScore(sortByScoreDesc(SubSeq(xs, 1, Len(xs) - 1)), xs[Len(xs)])

PermutationsOf(xs) ==
  {[i \in DOMAIN xs |-> xs[p[i]]] :
     p \in {q \in [DOMAIN xs -> DOMAIN xs] : \A i, j \in DOMAIN xs : q[i] = q[j] => i = j}}

sortOutcomes(scored) ==
  IF \A k \in DOMAIN scored : ~scored[k].scores.comprehensive.nan
  THEN {sortByScoreDesc(scored)}
  ELSE IF \A i, j \in DOMAIN scored : comparesEqual(scored[i], scored[j])
       THEN {scored}
       ELSE PermutationsOf(scored)

(***************************************************************************)
(* exportCompaniesToCSV: the text it builds, or a TypeError.               *)
(***************************************************************************)
ExportHeaders ==
  <<"Rank", "Organization Name", "Comprehensive Score", "Potential Score",
    "Funding Score", "Operations Score", "Brand Score",
    "Headquarters Location", "Industries", "Description", "Website">>

\* the longest description text written, in characters
DescriptionCap == 1000

\* s.replace(/"/g, '""')
DoubleQuotes(s) == ReplaceAll(s, "\"", "\"\"")

Quoted(s) == "\"" \o DoubleQuotes(s) \o "\""

exportDescription(c) ==
  LET text == IF Truthy(c, "Full Description") THEN c["Full Description"]
              ELSE OrElse(c, "Description", "")
      doubled == DoubleQuotes(text)
  IN  "\"" \o SubSeq(doubled, 1, IF Len(doubled) < DescriptionCap THEN Len(doubled) ELSE DescriptionCap)
      \o "\""

exportRow(company, idx) ==
  LET c == company.raw
  IN  Join(<<NatToString(idx + 1),
             Quoted(c["Organization Name"]),
             toFixed2(company.scores.comprehensive),
             toFixed2(company.scores.potential),
             toFixed2(company.scores.funding),
             toFixed2(company.scores.operations),
             toFixed2(company.scores.brandTrend),
             Quoted(OrElse(c, "Headquarters Location", "")),
             Quoted(OrElse(c, "Industries", "")),
             exportDescription(c),
             OrElse(c, "Organization Name URL", "")>>, ",")

\* c["Organization Name"].replace on a record without the column is a TypeError
exportThrows(companies) ==
  \E k \in DOMAIN companies : "Organization Name" \notin DOMAIN companies[k].raw

exportCompaniesToCSV(companies) ==
  Join(<<Join(ExportHeaders, ",")>> \o [k \in DOMAIN companies |-> exportRow(companies[k], k - 1)],
       "\n")

(***************************************************************************)
(* Dates.  What new Date(text) gives depends on the environment of the     *)
(* call: the local time zone (a date-only ISO text is midnight UTC, which  *)
(* is the day before in a zone behind UTC), the engine (a day past the end *)
(* of its month is rolled over by some engines and rejected by others) and *)
(* the clock.  An environment fixes the three.                             *)
(***************************************************************************)
ClockYears == {2026, 2027}

Environments == [behindUTC : BOOLEAN, rollsOver : BOOLEAN, currentYear : ClockYears]

IsDigits(s) == Len(s) > 0 /\ \A i \in 1..Len(s) : IsDigit(Char(s, i))

NatOf(s) == ScanDigits(s, 1, 0).val

LeapYear(y) == y % 4 = 0 /\ (y % 100 # 0 \/ y % 400 = 0)

DaysIn(y, m) ==
  IF m = 2 THEN (IF LeapYear(y) THEN 29 ELSE 28)
  ELSE IF m \in {4, 6, 9, 11} THEN 30 ELSE 31

InvalidDate == [valid |-> FALSE, year |-> 0, month |-> 0]

\* the local year and month of midnight UTC of a day
utcMidnight(y, m, d, env) ==
  IF env.behindUTC /\ d = 1
  THEN (IF m = 1 THEN [valid |-> TRUE, year |-> y - 1, month |-> 12]
        ELSE [valid |-> TRUE, year |-> y, month |-> m - 1])
  ELSE [valid |-> TRUE, year |-> y, month |-> m]

\* the day d of month m of year y, d up to 31
calendarDay(y, m, d, utc, env) ==
  IF m \notin 1..12 \/ d \notin 1..31 THEN InvalidDate
  ELSE IF d <= DaysIn(y, m)
       THEN (IF utc THEN utcMidnight(y, m, d, env) ELSE [valid |-> TRUE, year |-> y, month |-> m])
       ELSE IF ~env.rollsOver THEN InvalidDate
            ELSE IF utc THEN utcMidnight(y, m + 1, d - DaysIn(y, m), env)
                 ELSE [valid |-> TRUE, year |-> y, month |-> m + 1]

\* new Date(text), as getFullYear() and getMonth() + 1 read it.  The texts
\* read are YYYY, YYYY-MM and YYYY-MM-DD (UTC) and M/D/YYYY (local time); any
\* other text is an Invalid Date, as is every text without a digit.
newDate(text, env) ==
  LET iso == Split(text, "-")
      us == Split(text, "/")
  IN  IF /\ Len(iso) <= 3
         /\ Len(iso[1]) = 4 /\ IsDigits(iso[1])
         /\ \A k \in 2..Len(iso) : Len(iso[k]) = 2 /\ IsDigits(iso[k])
      THEN calendarDay(NatOf(iso[1]),
                       IF Len(iso) >= 2 THEN NatOf(iso[2]) ELSE 1,
                       IF Len(iso) = 3 THEN NatOf(iso[3]) ELSE 1, TRUE, env)
      ELSE IF /\ Len(us) = 3
              /\ Len(us[1]) \in 1..2 /\ IsDigits(us[1])
              /\ Len(us[2]) \in 1..2 /\ IsDigits(us[2])
              /\ Len(us[3]) = 4 /\ IsDigits(us[3])
           THEN calendarDay(NatOf(us[3]), NatOf(us[1]), NatOf(us[2]), FALSE, env)
           ELSE InvalidDate

\* String(n).padStart(2, '0')
padStart2(n) == (IF n < 10 THEN "0" ELSE "") \o NatToString(n)

formatDate(c, col, env) ==
  IF ~Truthy(c, col) THEN ""
  ELSE LET d == newDate(c[col], env)
       IN  IF ~d.valid THEN "" ELSE padStart2(d.month) \o "/" \o NatToString(d.year)

(***************************************************************************)
(* processData, step 2: the acquisition status of a company (undefined     *)
(* unless the company is closed or acquired).                              *)
(***************************************************************************)
NoAcquisitionStatus == [defined |-> FALSE, isAcquiredOrClosed |-> FALSE, label |-> "", color |-> ""]

ClosedColor == "bg-rose-100 text-rose-700 border-rose-200"
AcquiredColor == "bg-purple-100 text-purple-700 border-purple-200"

\* a slip: the operating status compared as written
acquisitionStatusAsWritten(c, env) ==
  LET opStatus == OrElse(c, "Operating Status", "")
      byPart == IF Truthy(c, "Acquired by") THEN " by " \o c["Acquired by"] ELSE ""
  IN  IF opStatus = "closed"
      THEN [defined |-> TRUE, isAcquiredOrClosed |-> TRUE,
            label |-> Trim("Closed " \o formatDate(c, "Closed Date", env)),
            color |-> ClosedColor]
      ELSE IF opStatus = "acquired" \/ (Truthy(c, "Acquired by") /\ Len(c["Acquired by"]) > 1)
           THEN [defined |-> TRUE, isAcquiredOrClosed |-> TRUE,
                 label |-> Trim("Acquired" \o byPart \o " " \o formatDate(c, "Exit Date", env)),
                 color |-> AcquiredColor]
           ELSE NoAcquisitionStatus

acquisitionStatus(c, env) ==
  LET opStatus == ToLowerCase(OrElse(c, "Operating Status", ""))
      byPart == IF Truthy(c, "Acquired by") THEN " by " \o c["Acquired by"] ELSE ""
  IN  IF opStatus = "closed"
      THEN [defined |-> TRUE, isAcquiredOrClosed |-> TRUE,
            label |-> Trim("Closed " \o formatDate(c, "Closed Date", env)),
            color |-> ClosedColor]
      ELSE IF opStatus = "acquired" \/ (Truthy(c, "Acquired by") /\ Len(c["Acquired by"]) > 1)
           THEN [defined |-> TRUE, isAcquiredOrClosed |-> TRUE,
                 label |-> Trim("Acquired" \o byPart \o " " \o formatDate(c, "Exit Date", env)),
                 color |-> AcquiredColor]
           ELSE NoAcquisitionStatus

\* the acquisition status of each company of the batch, in env
acquisitionStatuses(scored, env) ==
  AsTuple([k \in DOMAIN scored |-> acquisitionStatus(scored[k].raw, env)])

\* the scored companies, each with its acquisition status
withAcquisitionStatus(scored, statuses) ==
  AsTuple([k \in DOMAIN scored |->
     [raw |-> scored[k].raw, derived |-> scored[k].derived, id |-> scored[k].id,
      scores |-> scored[k].scores, themes |-> scored[k].themes,
      acquisitionStatus |-> statuses[k]]])

(***************************************************************************)
(* processData, step 3: the share of each theme among the companies        *)
(* founded in a year, per year after 1990 and up to the current one.       *)
(***************************************************************************)
\* a year counts when it is after this one
TrendsAfter == 1990

foundedYear(c, env) ==
  IF ~Truthy(c, "Founded Date") THEN 0
  ELSE LET d == newDate(c["Founded Date"], env) IN IF d.valid THEN d.year ELSE 0

inTrendRange(year, env) == year > TrendsAfter /\ year <= env.currentYear

\* Number.prototype.toFixed(1) of a number that is not negative
toFixed1(x) ==
  IF x.nan THEN "NaN"
  ELSE LET h == (2 * x.n * 10 + x.d) \div (2 * x.d)
       IN  NatToString(h \div 10) \o "." \o NatToString(h % 10)

\* parseFloat(((hits / count) * 100).toFixed(1))
themeShare(hits, count) == parseFloat(toFixed1(Mul(Div(Num(hits), Num(count)), Num(100))))

trendOf(scored, year, env) ==
  LET founded == {k \in DOMAIN scored : foundedYear(scored[k].raw, env) = year}
      share(name) ==
        themeShare(Cardinality({k \in founded : themeFlag(scored[k].themes, name)}),
                   Cardinality(founded))
  IN  [year |-> year, AI |-> share("AI"), Climate |-> share("Climate"),
       Fintech |-> share("Fintech"), Healthcare |-> share("Healthcare"),
       SaaS |-> share("SaaS"), Consumer |-> share("Consumer")]

\* the years of a set, ascending
RECURSIVE sortByYear(_)
sortByYear(years) ==
  IF years = {} THEN <<>>
  ELSE LET first == CHOOSE y \in years : \A z \in years : y <= z
       IN  <<first>> \o sortByYear(years \ {first})

trendsOf(scored, env) ==
  LET years == {y \in {foundedYear(scored[k].raw, env) : k \in DOMAIN scored} :
                  inTrendRange(y, env)}
      order == sortByYear(years)
  IN  AsTuple([i \in DOMAIN order |-> trendOf(scored, order[i], env)])

(***************************************************************************)
(* processData: what it returns for a batch.  More than one outcome only   *)
(* where the final sort is implementation-defined or where a date is read  *)
(* differently in different environments.                                  *)
(***************************************************************************)
\* what the environments make of the dates of a batch: the statuses of its
\* companies and its trends
dateReadings(scored) ==
  {[statuses |-> acquisitionStatuses(scored, env), trends |-> trendsOf(scored, env)] :
     env \in Environments}

processData(rawRecords) ==
  LET scored == scoreAll(rawRecords)
      investors == investorsOf(scored)
  IN  UNION {{[done |-> TRUE, companies |-> companies, trends |-> reading.trends,
               investors |-> investors] :
                companies \in sortOutcomes(withAcquisitionStatus(scored, reading.statuses))} :
             reading \in dateReadings(scored)}

(***************************************************************************)
(* The parser on its own: a text is typed character by character and       *)
(* parsed.                                                                 *)
(***************************************************************************)
Alphabet == {"a", ",", "\"", "\n", " "}

NotParsed == [done |-> FALSE, rows |-> <<>>]
NoResult == [done |-> FALSE, companies |-> <<>>, trends |-> <<>>, investors |-> <<>>]

NotReturned == [done |-> FALSE, value |-> NaN]

\* response.text: absent, or a text
NoText == [defined |-> FALSE, value |-> ""]

\* no generate function called: no promise, nothing sent
NoRequest ==
  [apiKey |-> FALSE, promise |-> "none", outcome |-> "none", text |-> NoText, chunks |-> <<>>]

\* useState<AnalysisState>({...}) of App
EmptyData == [companies |-> <<>>, trends |-> <<>>, investors |-> <<>>, isProcessing |-> FALSE]

\* App as first rendered: nothing displayed, no files being read, no
\* processing job pending; loaded is the argument of the last
\* handleDataLoaded and cleared tells that handleReset ran after the last
\* change of the displayed result set
AppStart ==
  [data |-> EmptyData, reading |-> <<>>, jobs |-> <<>>, loaded |-> <<>>, cleared |-> FALSE]

\* useState<string | null>(null): no company or investor
Null == "null"

\* CompanyList as first rendered, with no companies passed to it yet;
\* analyses and liveIntel hold the ids with a stored result, pending the
\* requests awaited by handleGenerateAnalysis and handleLiveIntel
CompanyListStart ==
  [companies |-> <<>>, expandedId |-> Null,
   analyses |-> {}, loadingAnalysis |-> Null,
   liveIntel |-> {}, loadingIntel |-> Null,
   searchTerm |-> "", sortConfig |-> [key |-> "rank", direction |-> "asc"],
   currentPage |-> 1, itemsPerPage |-> 20,
   pending |-> EmptyBag]

\* InvestorAnalysis as first rendered, with no investors passed to it yet;
\* liveIntel and internalAnalyses hold the names with a stored result,
\* pending the requests awaited by handleBackgroundCheck and
\* handleInternalAnalysis
InvestorAnalysisStart ==
  [investors |-> <<>>, expandedInvestor |-> Null,
   liveIntel |-> {}, loadingIntel |-> Null,
   internalAnalyses |-> {}, loadingInternal |-> Null,
   pending |-> EmptyBag]

\* ScoreDistribution before App renders it: the clock is read when it is
\* rendered
ScoreDistributionStart ==
  [rendered |-> FALSE, companies |-> <<>>, activeMetric |-> "comprehensive",
   selectedProvince |-> "All", yearRange |-> [start |-> 2000, end |-> 2000],
   currentYear |-> 2000]

\* Object.keys(THEME_CONFIG)
ThemeKeys == <<"AI", "Climate", "Fintech", "Healthcare", "SaaS", "Consumer">>

\* TrendChart as first rendered: every theme selected; toggled is the theme
\* of the last toggleTheme, Null when the last change was not a toggle
TrendChartStart == [selectedThemes |-> ThemeKeys, toggled |-> Null]

\* nothing uploaded, processed or exported
PipelineIdle ==
  /\ csvText = ""
  /\ parsed = NotParsed
  /\ rawData = <<>>
  /\ result = NoResult
  /\ threw = FALSE

\* no helper called on its own
NoCall == args = <<>> /\ returned = NotReturned /\ request = NoRequest

\* the components as they are first rendered
Mounted ==
  /\ app = AppStart
  /\ companyList = CompanyListStart
  /\ investorAnalysis = InvestorAnalysisStart
  /\ scoreDistribution = ScoreDistributionStart
  /\ trendChart = TrendChartStart

InitCSV == PipelineIdle /\ NoCall /\ Mounted

TypeChar(c) ==
  /\ Len(csvText) < MaxTextLen
  /\ csvText' = csvText \o c
  /\ parsed' = NotParsed
  /\ UNCHANGED <<rawData, result, threw>>
  /\ UNCHANGED callVars
  /\ UNCHANGED uiVars

ParseText ==
  /\ ~parsed.done
  /\ parsed' = [done |-> TRUE, rows |-> parseCSV(csvText)]
  /\ UNCHANGED <<csvText, rawData, result, threw>>
  /\ UNCHANGED callVars
  /\ UNCHANGED uiVars

NextCSV == (\E c \in Alphabet : TypeChar(c)) \/ ParseText

SpecCSV == InitCSV /\ [][NextCSV]_vars

(***************************************************************************)
(* The pipeline: raw records are loaded into a batch, the batch is         *)
(* processed, the scored companies are exported and the exported text is   *)
(* parsed again.  The records come from a well-formed base record with one *)
(* column removed or replaced, and from the record with no column at all.  *)
(***************************************************************************)
With(c, col, v) == [x \in DOMAIN c \cup {col} |-> IF x = col THEN v ELSE c[x]]
Without(c, col) == [x \in DOMAIN c \ {col} |-> c[x]]

BaseRecord ==
  ("Organization Name" :> "Acme") @@
  ("Organization Name URL" :> "http://acme.io") @@
  ("Headquarters Location" :> "Austin") @@
  ("Industries" :> "Software") @@
  ("Description" :> "ai saas") @@
  ("Total Funding Amount (in USD)" :> "4") @@
  ("Number of Articles" :> "2") @@
  ("CB Rank (Company)" :> "33,334") @@
  ("Number of Funding Rounds" :> "2") @@
  ("Number of Employees" :> "11-50") @@
  ("Operating Status" :> "Active") @@
  ("Last Funding Type" :> "Series A") @@
  ("Investors" :> "Acme Capital, Beta Fund")

EmptyRecord == [x \in {} |-> ""]

\* the names "Fund 1", ..., "Fund n", comma-separated
FundList(from, to) == Join([k \in 1..(to - from + 1) |-> "Fund " \o NatToString(from + k - 1)], ",")

\* one investor more than the list keeps
ManyInvestors == FundList(1, TopInvestors + 1)
LateInvestors == FundList(TopInvestors + 1, TopInvestors + 2)

\* the records that differ from the base record in one of the columns of
\* values: the column removed, or set to one of the values
Variants(values) ==
  {Without(BaseRecord, col) : col \in DOMAIN values}
    \cup UNION {{With(BaseRecord, col, v) : v \in values[col]} : col \in DOMAIN values}

\* the columns the scores are computed from
ScoreValues ==
  ("Total Funding Amount (in USD)" :> {"", "abc", "-4", "8"}) @@
  ("Number of Articles" :> {"none", "-2", "4"}) @@
  ("CB Rank (Company)" :> {"n/a", "1", "11,112"}) @@
  ("Number of Funding Rounds" :> {"x", "-1", "4"}) @@
  ("Number of Employees" :> {"1000+", "-5", "many", "501-1000"}) @@
  ("Operating Status" :> {"Closed"}) @@
  ("Last Funding Type" :> {"Series B", "IPO"}) @@
  ("Description" :> {})

\* the columns the investor statistics are computed from
InvestorValues ==
  ("Organization Name" :> {"", "Bolt"}) @@
  ("Description" :> {"", "solar payment", "health app for crypto wind", "food retail",
                     "AI-powered SaaS platform for enterprise workflow automation"}) @@
  ("Full Description" :> {"retail \"brand\""}) @@
  ("Investors" :> {"", "ab, Undisclosed Angel", "Beta Fund,\"Gamma LLC\",Gamma LLC",
                   ManyInvestors, LateInvestors}) @@
  ("Lead Investors" :> {"Delta Partners"})

\* the columns the exporter writes
ExportValues ==
  ("Organization Name" :> {"", "Say \"Hi\", Inc", "Two\nLines"}) @@
  ("Organization Name URL" :> {"", "http://x.io/a,b"}) @@
  ("Headquarters Location" :> {"", "Paris, France"}) @@
  ("Industries" :> {"AI, \"Deep\" Tech"}) @@
  ("Description" :> {"", "a \"quoted\" word"}) @@
  ("Full Description" :> {"first line\nsecond line"}) @@
  ("Total Funding Amount (in USD)" :> {"abc", "-4", "2.5"})

\* the founding dates: none, unparseable, before, at and after the bounds of
\* the trend years, and two of one year
FoundedDates == {"", "unknown", "1985-05-05", "1990-12-31", "1991-01-01", "2020-01-01",
                 "2020-06-15", "6/15/2020", "2027-01-01", "2028-03-03"}

\* a company of the base record's themes and one of another theme, founded
\* on each of the dates, and the base record without a founding date
TrendPool ==
  {BaseRecord}
    \cup {With(BaseRecord, "Founded Date", d) : d \in FoundedDates}
    \cup {With(With(With(BaseRecord, "Founded Date", d), "Description", "solar"),
                "Organization Name", "Sol") : d \in FoundedDates}

\* the columns the acquisition status is computed from
StatusValues ==
  ("Operating Status" :> {"", "Closed", "CLOSED", "closed", "Acquired", "acquired ",
                          "Closed down"}) @@
  ("Acquired by" :> {"", "B", "Big Co"})

\* the statuses with each acquirer, and closed and acquired companies with the
\* date of the event
StatusPool ==
  {BaseRecord, EmptyRecord}
    \cup Variants(StatusValues)
    \cup {With(With(BaseRecord, "Operating Status", st), "Acquired by", by) :
            st \in StatusValues["Operating Status"], by \in {"B", "Big Co"}}
    \cup {With(With(BaseRecord, "Operating Status", "Closed"), "Closed Date", d) :
            d \in {"2023-06-15", "2023-06-01", "soon"}}
    \cup {With(With(With(BaseRecord, "Operating Status", st), "Acquired by", "Big Co"),
                "Exit Date", "2023-01-01") : st \in {"Acquired", "Active"}}

\* the funding-stage labels: none, of no rule, of one rule, and of several
StageValues ==
  ("Last Funding Type" :> {"", "Seed", "series a", "Series C", "Post-IPO Equity", "Acquired",
                           "Series A - Acquired", "Series B, IPO", "Acquired after Series A"})

StagePool == {BaseRecord, EmptyRecord} \cup Variants(StageValues)

ScorePool == {BaseRecord, EmptyRecord} \cup Variants(ScoreValues)
InvestorPool == {BaseRecord, EmptyRecord} \cup Variants(InvestorValues)
ExportPool == {BaseRecord, EmptyRecord} \cup Variants(ExportValues)

Init == PipelineIdle /\ NoCall /\ Mounted

LoadRecord(r) ==
  /\ ~result.done
  /\ Len(rawData) < MaxRecords
  /\ rawData' = Append(rawData, r)
  /\ UNCHANGED <<csvText, parsed, result, threw>>
  /\ UNCHANGED callVars
  /\ UNCHANGED uiVars

ProcessData ==
  /\ ~result.done
  /\ result' \in processData(rawData)
  /\ UNCHANGED <<csvText, parsed, rawData, threw>>
  /\ UNCHANGED callVars
  /\ UNCHANGED uiVars

ExportCSV ==
  /\ result.done
  /\ csvText = ""
  /\ ~threw
  /\ IF exportThrows(result.companies)
     THEN threw' = TRUE /\ UNCHANGED csvText
     ELSE csvText' = exportCompaniesToCSV(result.companies) /\ UNCHANGED threw
  /\ UNCHANGED <<parsed, rawData, result>>
  /\ UNCHANGED callVars
  /\ UNCHANGED uiVars

ParseExported ==
  /\ csvText # ""
  /\ ~parsed.done
  /\ parsed' = [done |-> TRUE, rows |-> parseCSV(csvText)]
  /\ UNCHANGED <<csvText, rawData, result, threw>>
  /\ UNCHANGED callVars
  /\ UNCHANGED uiVars

\* scoring: batches of records that vary the numeric and status columns
NextScores == (\E r \in ScorePool : LoadRecord(r)) \/ ProcessData

SpecScores == Init /\ [][NextScores]_vars

\* investors: batches of records that vary the investor and description columns
NextInvestors == (\E r \in InvestorPool : LoadRecord(r)) \/ ProcessData

SpecInvestors == Init /\ [][NextInvestors]_vars

\* trends: batches of records that vary the founding date
NextTrends == (\E r \in TrendPool : LoadRecord(r)) \/ ProcessData

SpecTrends == Init /\ [][NextTrends]_vars

\* acquisition status: batches of records that vary the operating status,
\* the acquirer and the dates of closure and exit
NextStatus == (\E r \in StatusPool : LoadRecord(r)) \/ ProcessData

SpecStatus == Init /\ [][NextStatus]_vars

\* funding stage: batches of records that vary the funding-stage label
NextStage == (\E r \in StagePool : LoadRecord(r)) \/ ProcessData

SpecStage == Init /\ [][NextStage]_vars

\* the whole pipeline, on records that vary the exported columns
NextExport == (\E r \in ExportPool : LoadRecord(r)) \/ ProcessData \/ ExportCSV \/ ParseExported

SpecExport == Init /\ [][NextExport]_vars

(***************************************************************************)
(* parseEmployeeCount on its own: a headcount range is typed character by  *)
(* character, or is one of the documented examples, or is absent, and the  *)
(* helper is called on it.                                                 *)
(***************************************************************************)
RangeAlphabet == {"1", "0", ",", "+", "-"}

RangeExamples == {"11-50", "1000+", "1,000+", "1,001-5,000"}

InitEmployees ==
  /\ PipelineIdle
  /\ args \in {<<>>} \cup {<<range>> : range \in RangeExamples}
  /\ returned = NotReturned
  /\ request = NoRequest
  /\ Mounted

\* the range is the empty text
EmptyRange ==
  /\ args = <<>>
  /\ args' = <<"">>
  /\ UNCHANGED <<returned, request>>
  /\ UNCHANGED pipelineVars
  /\ UNCHANGED uiVars

TypeRange(ch) ==
  /\ ~returned.done
  /\ IF args = <<>> THEN TRUE ELSE Len(args[1]) < MaxRangeLen
  /\ args' = IF args = <<>> THEN <<ch>> ELSE <<args[1] \o ch>>
  /\ UNCHANGED <<returned, request>>
  /\ UNCHANGED pipelineVars
  /\ UNCHANGED uiVars

\* parseEmployeeCount(c["Number of Employees"]); no argument typed is undefined
CallParseEmployeeCount ==
  /\ ~returned.done
  /\ returned' = [done |-> TRUE,
                  value |-> parseEmployeeCount(IF args = <<>> THEN EmptyRecord
                                               ELSE ("Number of Employees" :> args[1]))]
  /\ UNCHANGED <<args, request>>
  /\ UNCHANGED pipelineVars
  /\ UNCHANGED uiVars

NextEmployees == EmptyRange \/ (\E ch \in RangeAlphabet : TypeRange(ch)) \/ CallParseEmployeeCount

SpecEmployees == InitEmployees /\ [][NextEmployees]_vars

(***************************************************************************)
(* normalize on its own: the three arguments are chosen one after another  *)
(* and the helper is called on them.                                       *)
(***************************************************************************)
NormalizeValues ==
  {Num(-MaxValue), Num(-2), Num(0), Num(1), Num(3), Num(MaxValue), NaN}

PickNumber(x) ==
  /\ ~returned.done
  /\ Len(args) < 3
  /\ args' = Append(args, x)
  /\ UNCHANGED <<returned, request>>
  /\ UNCHANGED pipelineVars
  /\ UNCHANGED uiVars

\* normalize(val, min, max)
CallNormalize ==
  /\ ~returned.done
  /\ Len(args) = 3
  /\ returned' = [done |-> TRUE, value |-> normalize(args[1], args[2], args[3])]
  /\ UNCHANGED <<args, request>>
  /\ UNCHANGED pipelineVars
  /\ UNCHANGED uiVars

NextNormalize == (\E x \in NormalizeValues : PickNumber(x)) \/ CallNormalize

SpecNormalize == Init /\ [][NextNormalize]_vars

(***************************************************************************)
(* JSON.parse, for texts without escapes in strings and without fractions  *)
(* or exponents in numbers.  A JavaScript value is a record of its type,   *)
(* its text (strings, numbers and literals), its fields (objects) and its  *)
(* items (arrays).                                                         *)
(***************************************************************************)
JSValue(type, text, fields, items) ==
  [type |-> type, text |-> text, fields |-> fields, items |-> items]

JSString(s) == JSValue("string", s, <<>>, <<>>)
JSObject(fields) == JSValue("object", "", fields, <<>>)
JSArray(items) == JSValue("array", "", <<>>, items)

SyntaxError == [ok |-> FALSE, value |-> JSValue("undefined", "", <<>>, <<>>), next |-> 0]
Parsed(v, next) == [ok |-> TRUE, value |-> v, next |-> next]

Whitespace == {" ", "\n", "\t", "\r"}

RECURSIVE SkipWhitespace(_, _)
SkipWhitespace(s, i) ==
  IF i <= Len(s) /\ Char(s, i) \in Whitespace THEN SkipWhitespace(s, i + 1) ELSE i

\* the first position from i on that holds ch, or 0
IndexFrom(s, ch, i) ==
  LET js == {j \in i..Len(s) : Char(s, j) = ch}
  IN  IF js = {} THEN 0 ELSE CHOOSE j \in js : \A k \in js : j <= k

RECURSIVE EndOfDigits(_, _)
EndOfDigits(s, i) ==
  IF i <= Len(s) /\ IsDigit(Char(s, i)) THEN EndOfDigits(s, i + 1) ELSE i

\* a string that opens at i
ParseStringAt(s, i) ==
  LET close == IndexFrom(s, "\"", i + 1)
      body == SubSeq(s, i + 1, close - 1)
  IN  IF close = 0 \/ Includes(body, "\\") \/ Includes(body, "\n") THEN SyntaxError
      ELSE Parsed(JSString(body), close + 1)

\* a number that starts at i: an optional minus, then 0 or digits without a
\* leading zero
ParseNumberAt(s, i) ==
  LET first == IF Char(s, i) = "-" THEN i + 1 ELSE i
      end == EndOfDigits(s, first)
  IN  IF end = first \/ (end > first + 1 /\ Char(s, first) = "0") THEN SyntaxError
      ELSE IF end <= Len(s) /\ Char(s, end) \in {".", "e", "E"} THEN SyntaxError
      ELSE Parsed(JSValue("number", SubSeq(s, i, end - 1), <<>>, <<>>), end)

\* null, true or false at i
ParseLiteralAt(s, i) ==
  LET Is(word) == i + Len(word) - 1 <= Len(s) /\ SubSeq(s, i, i + Len(word) - 1) = word
  IN  IF Is("null") THEN Parsed(JSValue("null", "null", <<>>, <<>>), i + 4)
      ELSE IF Is("true") THEN Parsed(JSValue("boolean", "true", <<>>, <<>>), i + 4)
      ELSE IF Is("false") THEN Parsed(JSValue("boolean", "false", <<>>, <<>>), i + 5)
      ELSE SyntaxError

RECURSIVE ParseValueAt(_, _)
RECURSIVE ParseMembersAt(_, _, _)
RECURSIVE ParseItemsAt(_, _, _)

ParseValueAt(s, i0) ==
  LET i == SkipWhitespace(s, i0)
  IN  IF i > Len(s) THEN SyntaxError
      ELSE LET c == Char(s, i)
               j == SkipWhitespace(s, i + 1)
           IN  IF c = "\"" THEN ParseStringAt(s, i)
               ELSE IF c = "{"
                    THEN IF j <= Len(s) /\ Char(s, j) = "}" THEN Parsed(JSObject(<<>>), j + 1)
                         ELSE ParseMembersAt(s, j, <<>>)
               ELSE IF c = "["
                    THEN IF j <= Len(s) /\ Char(s, j) = "]" THEN Parsed(JSArray(<<>>), j + 1)
                         ELSE ParseItemsAt(s, j, <<>>)
               ELSE IF c = "-" \/ IsDigit(c) THEN ParseNumberAt(s, i)
               ELSE ParseLiteralAt(s, i)

\* the members of an object from a key at i0 on; a repeated key keeps its
\* last value
ParseMembersAt(s, i0, acc) ==
  LET i == SkipWhitespace(s, i0)
      key == IF i <= Len(s) /\ Char(s, i) = "\"" THEN ParseStringAt(s, i) ELSE SyntaxError
      colon == SkipWhitespace(s, key.next)
      v == ParseValueAt(s, colon + 1)
      fields == (key.value.text :> v.value) @@ acc
      end == SkipWhitespace(s, v.next)
  IN  IF ~key.ok THEN SyntaxError
      ELSE IF colon > Len(s) THEN SyntaxError
      ELSE IF Char(s, colon) # ":" THEN SyntaxError
      ELSE IF ~v.ok THEN SyntaxError
      ELSE IF end > Len(s) THEN SyntaxError
      ELSE IF Char(s, end) = "}" THEN Parsed(JSObject(fields), end + 1)
      ELSE IF Char(s, end) = "," THEN ParseMembersAt(s, end + 1, fields)
      ELSE SyntaxError

\* the items of an array from an item at i0 on
ParseItemsAt(s, i0, acc) ==
  LET v == ParseValueAt(s, i0)
      items == Append(acc, v.value)
      end == SkipWhitespace(s, v.next)
  IN  IF ~v.ok THEN SyntaxError
      ELSE IF end > Len(s) THEN SyntaxError
      ELSE IF Char(s, end) = "]" THEN Parsed(JSArray(items), end + 1)
      ELSE IF Char(s, end) = "," THEN ParseItemsAt(s, end + 1, items)
      ELSE SyntaxError

\* JSON.parse(text): ok is FALSE where it throws a SyntaxError
JSONParse(text) ==
  LET r == ParseValueAt(text, 1)
  IN  IF ~r.ok THEN SyntaxError
      ELSE IF SkipWhitespace(text, r.next) <= Len(text) THEN SyntaxError
      ELSE r

(***************************************************************************)
(* generateInvestmentAnalysis, generateInvestorInternalAnalysis and        *)
(* generateLiveIntelligence.  Each runs to its await of generateContent in *)
(* one step and, when the request settles, to its return in another; a     *)
(* throw on the way is caught and a fixed payload is returned.             *)
(***************************************************************************)
MaxChunks == 2

GenerateFunctions ==
  {"generateInvestmentAnalysis", "generateInvestorInternalAnalysis", "generateLiveIntelligence"}

\* what the catch block of fn returns
caught(fn) ==
  IF fn = "generateInvestmentAnalysis"
  THEN JSObject(("executiveSummary" :> JSString("Failed to generate analysis."))
                @@ ("investmentVerdict" :> JSString("Analysis unavailable due to an error."))
                @@ ("competitiveEdge" :> JSString("Please check console for details.")))
  ELSE IF fn = "generateInvestorInternalAnalysis"
  THEN JSObject(("investmentThesis" :> JSString("Could not analyze portfolio."))
                @@ ("portfolioComposition" :> JSString("Data unavailable."))
                @@ ("strategicFocus" :> JSString("Error generating insights.")))
  ELSE [markdown |-> "## Error\nCould not fetch live intelligence. Please check your API key permissions.",
        sources |-> <<>>]

\* building the prompt reads properties of the company or of the investor,
\* which throws a TypeError when the argument is undefined; the query name
\* of generateLiveIntelligence is only interpolated
promptThrows(fn, argument) == fn # "generateLiveIntelligence" /\ argument = "undefined"

\* title || "Source" and uri || "" of each chunk, those with a uri kept
groundingSources(chunks) ==
  LET mapped == [i \in DOMAIN chunks |->
                   [title |-> IF chunks[i].title = "" THEN "Source" ELSE chunks[i].title,
                    uri |-> chunks[i].uri]]
  IN  SelectSeq(AsTuple(mapped), LAMBDA src : src.uri # "")

\* Array.from(new Map(sources.map(s => [s.uri, s])).values()): one source
\* for each uri, at the place of the first and with the value of the last
uniqueSources(sources) ==
  LET firsts == SelectSeq(AsTuple([i \in DOMAIN sources |-> i]),
                          LAMBDA i : \A j \in 1..(i - 1) : sources[j].uri # sources[i].uri)
      lastOf(uri) == CHOOSE j \in DOMAIN sources :
                       /\ sources[j].uri = uri
                       /\ \A k \in DOMAIN sources : sources[k].uri = uri => k <= j
  IN  AsTuple([k \in DOMAIN firsts |-> sources[lastOf(sources[firsts[k]].uri)]])

\* response.text is truthy
hasText(text) == text.defined /\ text.value # ""

\* from the response to the return of fn
afterResponse(fn, text, chunks) ==
  IF fn = "generateLiveIntelligence"
  THEN [markdown |-> IF hasText(text) THEN text.value ELSE "No information found.",
        sources |-> uniqueSources(groundingSources(chunks))]
  ELSE IF hasText(text)
       THEN LET parsedText == JSONParse(text.value)
            IN  IF parsedText.ok THEN parsedText.value ELSE caught(fn)
       ELSE caught(fn)

Arguments == {"given", "undefined"}

ResponseTexts ==
  {"", "oops", "{", "{}", "[]", "42", "null", "\"text\"",
   "{\"executiveSummary\":\"a\"}",
   "{\"executiveSummary\":\"a\",\"investmentVerdict\":\"b\",\"competitiveEdge\":\"c\"}",
   "{\"executiveSummary\": 1, \"investmentVerdict\": \"b\", \"competitiveEdge\": \"c\"}",
   "{\"investmentThesis\":\"a\",\"portfolioComposition\":\"b\",\"strategicFocus\":\"c\"}",
   "{\"investmentThesis\":\"a\",\"portfolioComposition\":[\"b\"],\"strategicFocus\":\"c\"}",
   "## Latest Headlines\n- none"}

Texts == {NoText} \cup {[defined |-> TRUE, value |-> t] : t \in ResponseTexts}

\* a grounding chunk by its web title and uri; "" is an absent or empty one
ChunkPool ==
  {[title |-> "", uri |-> ""], [title |-> "", uri |-> "u"],
   [title |-> "T", uri |-> "u"], [title |-> "V", uri |-> "v"]}

ChunkLists == UNION {[1..n -> ChunkPool] : n \in 0..MaxChunks}

\* fn(argument) up to its await: getAIClient throws without the API key
CallGenerate(fn, argument, apiKey) ==
  /\ request.promise = "none"
  /\ args = <<>>
  /\ ~returned.done
  /\ args' = <<fn, argument>>
  /\ IF ~apiKey \/ promptThrows(fn, argument)
     THEN /\ request' = [request EXCEPT !.apiKey = apiKey, !.promise = "fulfilled"]
          /\ returned' = [done |-> TRUE, value |-> caught(fn)]
     ELSE /\ request' = [request EXCEPT !.apiKey = apiKey, !.promise = "pending"]
          /\ UNCHANGED returned
  /\ UNCHANGED pipelineVars
  /\ UNCHANGED uiVars

\* generateContent rejects
RequestFails ==
  /\ request.promise = "pending"
  /\ request' = [request EXCEPT !.outcome = "failed", !.promise = "fulfilled"]
  /\ returned' = [done |-> TRUE, value |-> caught(args[1])]
  /\ UNCHANGED args
  /\ UNCHANGED pipelineVars
  /\ UNCHANGED uiVars

\* generateContent resolves with a response
Respond(text, chunks) ==
  /\ request.promise = "pending"
  /\ request' = [request EXCEPT !.outcome = "responded", !.text = text,
                                !.chunks = chunks, !.promise = "fulfilled"]
  /\ returned' = [done |-> TRUE, value |-> afterResponse(args[1], text, chunks)]
  /\ UNCHANGED args
  /\ UNCHANGED pipelineVars
  /\ UNCHANGED uiVars

NextGenerate ==
  \/ \E fn \in GenerateFunctions, argument \in Arguments, apiKey \in BOOLEAN :
       CallGenerate(fn, argument, apiKey)
  \/ RequestFails
  \/ \E text \in Texts, chunks \in ChunkLists : Respond(text, chunks)

SpecGenerate == Init /\ [][NextGenerate]_vars

(***************************************************************************)
(* App and FileUpload: files are selected, read, handed to                 *)
(* handleDataLoaded, and processed after a timer and the import of the     *)
(* processing module; handleReset clears the display.  FileUpload is       *)
(* rendered while no company is displayed and the reset button while some  *)
(* are.  FileReaders finish in any order; timers of equal delay and the    *)
(* imports of one module finish in the order they were started.            *)
(***************************************************************************)
MaxSelections == 2
MaxJobs == 2

FileAcme == "Organization Name,Description,Investors\nAcme,ai saas,Acme Capital\n"
FileBolt == "Organization Name,Description,Founded Date\nBolt,solar,2020-06-15\n"
FileHeaderOnly == "Organization Name\n"

\* the texts of the files of one selection; "" is a file without text
Selections ==
  {<<FileAcme>>, <<FileBolt>>, <<FileAcme, FileBolt>>, <<FileHeaderOnly>>, <<"", FileBolt>>, <<"">>}

\* contents.filter(c => c.length > 0)
validContents(contents) == SelectSeq(contents, LAMBDA c : Len(c) > 0)

\* filesContent.flatMap(content => module.parseCSV(content))
RECURSIVE allRawData(_)
allRawData(filesContent) ==
  IF filesContent = <<>> THEN <<>>
  ELSE parseCSV(Head(filesContent)) \o allRawData(Tail(filesContent))

\* the lists of texts handleDataLoaded can be called with
Batches == {validContents(files) : files \in Selections} \ {<<>>}

\* module.processData(allRawData) for each of them: the results it can give
processedOf == [filesContent \in Batches |-> processData(allRawData(filesContent))]

\* a slip: only the companies replaced
setProcessedCompaniesOnly(prev, processed) ==
  [prev EXCEPT !.companies = processed.companies, !.isProcessing = FALSE]

\* setData({companies: processed.companies, ..., isProcessing: false})
setProcessed(prev, processed) ==
  [companies |-> processed.companies, trends |-> processed.trends,
   investors |-> processed.investors, isProcessing |-> FALSE]

\* handleFileChange up to its await: a reader is started for every file
handleFileChange(files) ==
  /\ app.data.companies = <<>>
  /\ Len(app.reading) < MaxSelections
  /\ app' = [app EXCEPT !.reading = Append(@, files)]
  /\ UNCHANGED <<companyList, investorAnalysis, scoreDistribution, trendChart>>
  /\ UNCHANGED pipelineVars
  /\ UNCHANGED callVars

\* the readers of selection i have all finished: handleFileChange from its
\* await on, and handleDataLoaded when a file has text
FilesRead(i) ==
  LET valid == validContents(app.reading[i])
      rest == SubSeq(app.reading, 1, i - 1) \o SubSeq(app.reading, i + 1, Len(app.reading))
  IN  /\ Len(app.jobs) < MaxJobs
      /\ IF Len(valid) > 0
         THEN app' = [app EXCEPT !.reading = rest,
                                 !.data.isProcessing = TRUE,
                                 !.jobs = Append(@, [filesContent |-> valid, stage |-> "timer"]),
                                 !.loaded = valid]
         ELSE app' = [app EXCEPT !.reading = rest]
      /\ UNCHANGED <<companyList, investorAnalysis, scoreDistribution, trendChart>>
      /\ UNCHANGED pipelineVars
      /\ UNCHANGED callVars

\* setTimeout(..., 100) fires for the oldest job still waiting for it
TimerFires ==
  /\ \E k \in DOMAIN app.jobs :
       /\ app.jobs[k].stage = "timer"
       /\ \A j \in 1..(k - 1) : app.jobs[j].stage # "timer"
       /\ app' = [app EXCEPT !.jobs[k].stage = "importing"]
  /\ UNCHANGED <<companyList, investorAnalysis, scoreDistribution, trendChart>>
  /\ UNCHANGED pipelineVars
  /\ UNCHANGED callVars

\* import(...).then(...) of the oldest job: the files are parsed, processed
\* and displayed
ImportResolves ==
  /\ app.jobs # <<>>
  /\ app.jobs[1].stage = "importing"
  /\ \E processed \in processedOf[app.jobs[1].filesContent] :
       app' = [app EXCEPT !.data = setProcessed(@, processed),
                          !.jobs = Tail(@),
                          !.cleared = FALSE]
  /\ UNCHANGED <<companyList, investorAnalysis, scoreDistribution, trendChart>>
  /\ UNCHANGED pipelineVars
  /\ UNCHANGED callVars

handleReset ==
  /\ app.data.companies # <<>>
  /\ app' = [app EXCEPT !.data = EmptyData, !.cleared = TRUE]
  /\ UNCHANGED <<companyList, investorAnalysis, scoreDistribution, trendChart>>
  /\ UNCHANGED pipelineVars
  /\ UNCHANGED callVars

NextApp ==
  \/ \E files \in Selections : handleFileChange(files)
  \/ \E i \in DOMAIN app.reading : FilesRead(i)
  \/ TimerFires
  \/ ImportResolves
  \/ handleReset

SpecApp == Init /\ [][NextApp]_vars

(***************************************************************************)
(* extractInvestors on its own: the three investor fields of a record are  *)
(* set, each at most once, and the helper is called on the record.         *)
(***************************************************************************)
InvestorFieldTexts ==
  {"", "ab", "Acme Capital", " Acme Capital ,Beta Fund", "\"Gamma LLC\",Gamma LLC",
   "UNDISCLOSED investor, abc", "\"ab\",\"", "Beta Fund,, x y"}

SetInvestorField(col, text) ==
  /\ ~returned.done
  /\ IF args = <<>> THEN TRUE ELSE col \notin DOMAIN args[1]
  /\ args' = IF args = <<>> THEN <<(col :> text)>> ELSE <<(col :> text) @@ args[1]>>
  /\ UNCHANGED <<returned, request>>
  /\ UNCHANGED pipelineVars
  /\ UNCHANGED uiVars

\* extractInvestors(row); no field set is a record with none of the fields
CallExtractInvestors ==
  /\ ~returned.done
  /\ returned' = [done |-> TRUE,
                  value |-> extractInvestors(IF args = <<>> THEN EmptyRecord ELSE args[1])]
  /\ args' = IF args = <<>> THEN <<EmptyRecord>> ELSE args
  /\ UNCHANGED request
  /\ UNCHANGED pipelineVars
  /\ UNCHANGED uiVars

NextExtract ==
  \/ \E col \in Range(InvestorColumns), text \in InvestorFieldTexts : SetInvestorField(col, text)
  \/ CallExtractInvestors

SpecExtract == Init /\ [][NextExtract]_vars

(***************************************************************************)
(* CompanyList: search, sorting and pagination of the company table.       *)
(***************************************************************************)
MaxCompanies == 21

ListNames == <<"Acme", "Bolt", "Acme Bolt">>
SearchTerms == {"", "acme", "BOLT", "zz"}
SortKeys == {"rank", "comprehensive"}
RowsOptions == {10, 20, 50, 100, -1}

\* the companies prop: n scored companies in rank order; none has a
\* description
ListedCompanies(n) ==
  [i \in 1..n |-> [id |-> "comp-" \o NatToString(i - 1),
                   name |-> ListNames[(i % 3) + 1],
                   comprehensive |-> (i * 37) % 101]]

Datasets == [n \in 0..(MaxCompanies + 1) |-> AsTuple(ListedCompanies(n))]

\* c["Organization Name"].toLowerCase().includes(searchTerm.toLowerCase());
\* the empty descriptions include only the empty search term, which every
\* name includes as well
matchesSearch ==
  [name \in Range(ListNames), term \in SearchTerms |->
     Includes(ToLowerCase(name), ToLowerCase(term))]

companiesWithRank(companies) ==
  [i \in DOMAIN companies |->
     [id |-> companies[i].id, name |-> companies[i].name,
      comprehensive |-> companies[i].comprehensive, originalRank |-> i]]

sortValue(c, key) == IF key = "comprehensive" THEN c.comprehensive ELSE c.originalRank

\* the comparator of result.sort
compareCompanies(a, b, sortConfig) ==
  IF sortValue(a, sortConfig.key) < sortValue(b, sortConfig.key)
  THEN (IF sortConfig.direction = "asc" THEN -1 ELSE 1)
  ELSE IF sortValue(a, sortConfig.key) > sortValue(b, sortConfig.key)
  THEN (IF sortConfig.direction = "asc" THEN 1 ELSE -1)
  ELSE 0

\* Array.prototype.sort is stable: c goes after everything not above it
RECURSIVE insertCompany(_, _, _)
insertCompany(sorted, c, sortConfig) ==
  IF sorted = <<>> THEN <<c>>
  ELSE IF compareCompanies(sorted[Len(sorted)], c, sortConfig) <= 0
  THEN Append(sorted, c)
  ELSE Append(insertCompany(SubSeq(sorted, 1, Len(sorted) - 1), c, sortConfig),
              sorted[Len(sorted)])

RECURSIVE sortCompanies(_, _)
sortCompanies(cs, sortConfig) ==
  IF cs = <<>> THEN <<>>
  ELSE insertCompany(sortCompanies(SubSeq(cs, 1, Len(cs) - 1), sortConfig),
                     cs[Len(cs)], sortConfig)

filteredAndSortedCompanies(cl) ==
  sortCompanies(SelectSeq(companiesWithRank(cl.companies),
                          LAMBDA c : matchesSearch[c.name, cl.searchTerm]),
                cl.sortConfig)

\* Math.ceil(length / itemsPerPage) for a positive itemsPerPage
totalPages(cl) ==
  IF cl.itemsPerPage = -1 THEN 1
  ELSE (Len(filteredAndSortedCompanies(cl)) + cl.itemsPerPage - 1) \div cl.itemsPerPage

\* slice(startIndex, startIndex + itemsPerPage)
paginatedCompanies(cl) ==
  IF cl.itemsPerPage = -1 THEN filteredAndSortedCompanies(cl)
  ELSE LET all == filteredAndSortedCompanies(cl)
           startIndex == (cl.currentPage - 1) * cl.itemsPerPage
           end == IF startIndex + cl.itemsPerPage < Len(all)
                  THEN startIndex + cl.itemsPerPage ELSE Len(all)
       IN SubSeq(all, startIndex + 1, end)

\* only the company table changes
OnlyCompanyList ==
  /\ UNCHANGED <<app, investorAnalysis, scoreDistribution, trendChart>>
  /\ UNCHANGED pipelineVars
  /\ UNCHANGED callVars

\* App renders the table once a result set is displayed
RenderCompanies(n) ==
  /\ companyList.companies = <<>>
  /\ companyList' = [CompanyListStart EXCEPT !.companies = Datasets[n]]
  /\ OnlyCompanyList

\* setSearchTerm(e.target.value); the effect on [searchTerm, companies]
\* runs when the term changed
setSearchTerm(term) ==
  /\ companyList.companies # <<>>
  /\ companyList' = IF term = companyList.searchTerm THEN companyList
                    ELSE [companyList EXCEPT !.searchTerm = term, !.currentPage = 1]
  /\ OnlyCompanyList

handleSort(key) ==
  /\ companyList.companies # <<>>
  /\ companyList' =
       [companyList EXCEPT !.sortConfig =
          [key |-> key,
           direction |-> IF companyList.sortConfig.key = key
                            /\ companyList.sortConfig.direction = "desc"
                         THEN "asc" ELSE "desc"]]
  /\ OnlyCompanyList

handlePageChange(cl, newPage) ==
  IF newPage >= 1 /\ newPage <= totalPages(cl)
  THEN [cl EXCEPT !.currentPage = newPage]
  ELSE cl

\* the pagination controls are rendered for a non-empty filtered list
ControlsShown == Len(filteredAndSortedCompanies(companyList)) > 0

\* the first, previous, next and last buttons, each unless disabled
PageButton(button) ==
  /\ ControlsShown
  /\ IF button \in {"first", "previous"} THEN companyList.currentPage # 1
     ELSE companyList.currentPage # totalPages(companyList)
  /\ companyList' =
       handlePageChange(companyList,
                        CASE button = "first" -> 1
                          [] button = "previous" -> companyList.currentPage - 1
                          [] button = "next" -> companyList.currentPage + 1
                          [] button = "last" -> totalPages(companyList))
  /\ OnlyCompanyList

\* Enter in the go-to input with a number typed into it
GoToPage(val) ==
  /\ ControlsShown
  /\ companyList' = handlePageChange(companyList, val)
  /\ OnlyCompanyList

\* the rows select: setItemsPerPage(Number(e.target.value))
setItemsPerPage(rows) ==
  /\ ControlsShown
  /\ companyList' = [companyList EXCEPT !.itemsPerPage = rows]
  /\ OnlyCompanyList

NextCompanyList ==
  \/ \E n \in 1..MaxCompanies : RenderCompanies(n)
  \/ \E term \in SearchTerms : setSearchTerm(term)
  \/ \E key \in SortKeys : handleSort(key)
  \/ \E button \in {"first", "previous", "next", "last"} : PageButton(button)
  \/ \E val \in -1..((MaxCompanies + 9) \div 10 + 1) : GoToPage(val)
  \/ \E rows \in RowsOptions : setItemsPerPage(rows)

SpecCompanyList == Init /\ [][NextCompanyList]_vars

(***************************************************************************)
(* CompanyList and InvestorAnalysis: the generate and search requests.     *)
(* A request is awaited by its handler from the click to the moment the    *)
(* promise resolves; requests resolve in any order.                        *)
(***************************************************************************)
MaxItems == 2
MaxPending == 2

InvestorNames == <<"Acme Capital", "Beta Fund", "Gamma LLC">>

\* the investors prop: the n top investors
ListedInvestors(n) == [i \in 1..n |-> [name |-> InvestorNames[i]]]

\* requests awaited in both components
InFlight == BagCardinality(companyList.pending) + BagCardinality(investorAnalysis.pending)

OneRequest(kind, item) == SetToBag({[kind |-> kind, item |-> item]})

IsPending(pending, kind, item) == BagIn([kind |-> kind, item |-> item], pending)

\* only the investor panel changes
OnlyInvestorAnalysis ==
  /\ UNCHANGED <<app, companyList, scoreDistribution, trendChart>>
  /\ UNCHANGED pipelineVars
  /\ UNCHANGED callVars

\* App renders the panel when data.investors.length > 0
RenderInvestors(n) ==
  /\ investorAnalysis.investors = <<>>
  /\ investorAnalysis' = [InvestorAnalysisStart EXCEPT !.investors = ListedInvestors(n)]
  /\ OnlyInvestorAnalysis

\* a click on a row of the visible page
toggleExpand(id) ==
  /\ \E c \in Range(paginatedCompanies(companyList)) : c.id = id
  /\ companyList' = [companyList EXCEPT
                       !.expandedId = IF companyList.expandedId = id THEN Null ELSE id]
  /\ OnlyCompanyList

\* the buttons of a company are those of the expanded row of the page
RowExpanded(id) ==
  /\ companyList.expandedId = id
  /\ \E c \in Range(paginatedCompanies(companyList)) : c.id = id

\* the generate button is rendered while no analysis is stored and is
\* disabled while loadingAnalysis is the company; the handler runs up to
\* its await
handleGenerateAnalysis(id) ==
  /\ RowExpanded(id)
  /\ id \notin companyList.analyses
  /\ companyList.loadingAnalysis # id
  /\ InFlight < MaxPending
  /\ companyList' = [companyList EXCEPT
                       !.loadingAnalysis = id,
                       !.pending = @ (+) OneRequest("analysis", id)]
  /\ OnlyCompanyList

\* generateInvestmentAnalysis resolved: the rest of the handler
AnalysisResolves(id) ==
  /\ IsPending(companyList.pending, "analysis", id)
  /\ companyList' = [companyList EXCEPT
                       !.analyses = @ \cup {id},
                       !.loadingAnalysis = Null,
                       !.pending = @ (-) OneRequest("analysis", id)]
  /\ OnlyCompanyList

handleLiveIntel(id) ==
  /\ RowExpanded(id)
  /\ id \notin companyList.liveIntel
  /\ companyList.loadingIntel # id
  /\ InFlight < MaxPending
  /\ companyList' = [companyList EXCEPT
                       !.loadingIntel = id,
                       !.pending = @ (+) OneRequest("intel", id)]
  /\ OnlyCompanyList

LiveIntelResolves(id) ==
  /\ IsPending(companyList.pending, "intel", id)
  /\ companyList' = [companyList EXCEPT
                       !.liveIntel = @ \cup {id},
                       !.loadingIntel = Null,
                       !.pending = @ (-) OneRequest("intel", id)]
  /\ OnlyCompanyList

\* featuredInvestors: the first six of the investors, none filtered out
featuredInvestors == Slice0(investorAnalysis.investors, 6)

toggleExpandInvestor(name) ==
  /\ \E inv \in Range(featuredInvestors) : inv.name = name
  /\ investorAnalysis' = [investorAnalysis EXCEPT
                            !.expandedInvestor =
                               IF investorAnalysis.expandedInvestor = name THEN Null ELSE name]
  /\ OnlyInvestorAnalysis

InvestorExpanded(name) ==
  /\ investorAnalysis.expandedInvestor = name
  /\ \E inv \in Range(featuredInvestors) : inv.name = name

handleBackgroundCheck(name) ==
  /\ InvestorExpanded(name)
  /\ name \notin investorAnalysis.liveIntel
  /\ investorAnalysis.loadingIntel # name
  /\ InFlight < MaxPending
  /\ investorAnalysis' = [investorAnalysis EXCEPT
                            !.loadingIntel = name,
                            !.pending = @ (+) OneRequest("intel", name)]
  /\ OnlyInvestorAnalysis

BackgroundCheckResolves(name) ==
  /\ IsPending(investorAnalysis.pending, "intel", name)
  /\ investorAnalysis' = [investorAnalysis EXCEPT
                            !.liveIntel = @ \cup {name},
                            !.loadingIntel = Null,
                            !.pending = @ (-) OneRequest("intel", name)]
  /\ OnlyInvestorAnalysis

handleInternalAnalysis(name) ==
  /\ InvestorExpanded(name)
  /\ name \notin investorAnalysis.internalAnalyses
  /\ investorAnalysis.loadingInternal # name
  /\ InFlight < MaxPending
  /\ investorAnalysis' = [investorAnalysis EXCEPT
                            !.loadingInternal = name,
                            !.pending = @ (+) OneRequest("internal", name)]
  /\ OnlyInvestorAnalysis

InternalAnalysisResolves(name) ==
  /\ IsPending(investorAnalysis.pending, "internal", name)
  /\ investorAnalysis' = [investorAnalysis EXCEPT
                            !.internalAnalyses = @ \cup {name},
                            !.loadingInternal = Null,
                            !.pending = @ (-) OneRequest("internal", name)]
  /\ OnlyInvestorAnalysis

CompanyIds == {Datasets[MaxItems][i].id : i \in 1..MaxItems}
ListedInvestorNames == {InvestorNames[i] : i \in 1..MaxItems}

NextRequests ==
  \/ \E n \in 1..MaxItems : RenderCompanies(n)
  \/ \E n \in 1..MaxItems : RenderInvestors(n)
  \/ \E id \in CompanyIds : toggleExpand(id)
  \/ \E id \in CompanyIds : handleGenerateAnalysis(id)
  \/ \E id \in CompanyIds : AnalysisResolves(id)
  \/ \E id \in CompanyIds : handleLiveIntel(id)
  \/ \E id \in CompanyIds : LiveIntelResolves(id)
  \/ \E name \in ListedInvestorNames : toggleExpandInvestor(name)
  \/ \E name \in ListedInvestorNames : handleBackgroundCheck(name)
  \/ \E name \in ListedInvestorNames : BackgroundCheckResolves(name)
  \/ \E name \in ListedInvestorNames : handleInternalAnalysis(name)
  \/ \E name \in ListedInvestorNames : InternalAnalysisResolves(name)

SpecRequests == Init /\ [][NextRequests]_vars

(***************************************************************************)
(* ScoreDistribution: the metric, the filters and the five score bins.     *)
(* A company of the panel carries its headquarters location, the year      *)
(* new Date(c["Founded Date"]).getFullYear() reads (0 for no date or NaN)  *)
(* and its scores.                                                         *)
(***************************************************************************)
MaxScored == 2
minYearLimit == 1990

METRICS == <<"comprehensive", "potential", "funding", "operations", "brandTrend">>
PROVINCES_LIST == <<"All", "Ontario", "British Columbia", "Quebec", "Alberta", "Other">>
TypedYears == {1980, 1995, 2010, 2030}

ScoresOf(comprehensive, potential, funding, operations, brandTrend) ==
  [comprehensive |-> comprehensive, potential |-> potential, funding |-> funding,
   operations |-> operations, brandTrend |-> brandTrend]

ScoredPool ==
  {[location |-> "Toronto, Ontario, Canada", year |-> 1995,
    scores |-> ScoresOf(Rat(41, 2), Num(21), Num(0), Num(100), Num(40))],
   [location |-> "Vancouver BC Canada", year |-> 2010,
    scores |-> ScoresOf(Num(60), Rat(8099, 100), Num(81), Num(41), Num(61))],
   [location |-> "", year |-> 0,
    scores |-> ScoresOf(Num(100), Num(0), Num(20), Num(20), Num(50))],
   [location |-> "Calgary, Alberta", year |-> 2020,
    scores |-> ScoresOf(Num(40), Num(80), Rat(243, 4), Rat(999, 10), Num(1))]}

ScoredLists == UNION {[1..n -> ScoredPool] : n \in 1..MaxScored}

\* the years of the effect on [companies]
foundedYears(companies) == {companies[i].year : i \in DOMAIN companies} \ {0}

MinOf(S) == CHOOSE x \in S : \A y \in S : x <= y
MaxOf(S) == CHOOSE x \in S : \A y \in S : y <= x

\* useState of the panel and the effect that initializes the range
renderScoreDistribution(companies, currentYear) ==
  [rendered |-> TRUE, companies |-> companies, activeMetric |-> "comprehensive",
   selectedProvince |-> "All",
   yearRange |-> IF companies # <<>> /\ foundedYears(companies) # {}
                 THEN [start |-> MinOf(foundedYears(companies)),
                       end |-> MaxOf(foundedYears(companies))]
                 ELSE [start |-> 2000, end |-> currentYear],
   currentYear |-> currentYear]

matchesProvince(location, selectedProvince) ==
  LET loc == ToLowerCase(location)
      ontario == Includes(loc, "ontario") \/ Includes(loc, " on ")
      bc == Includes(loc, "british columbia") \/ Includes(loc, " bc ")
      quebec == Includes(loc, "quebec") \/ Includes(loc, " qc ")
      alberta == Includes(loc, "alberta") \/ Includes(loc, " ab ")
  IN  CASE selectedProvince = "All" -> TRUE
        [] selectedProvince = "Ontario" -> ontario
        [] selectedProvince = "British Columbia" -> bc
        [] selectedProvince = "Quebec" -> quebec
        [] selectedProvince = "Alberta" -> alberta
        [] selectedProvince = "Other" -> ~ontario /\ ~bc /\ ~quebec /\ ~alberta
        [] OTHER -> FALSE

filteredCompanies(sd) ==
  SelectSeq(sd.companies,
            LAMBDA c : /\ matchesProvince(c.location, sd.selectedProvince)
                       /\ (c.year # 0 =>
                             ~(c.year < sd.yearRange.start \/ c.year > sd.yearRange.end)))

bins ==
  <<[range |-> "0-20", min |-> 0, max |-> 20],
    [range |-> "21-40", min |-> 21, max |-> 40],
    [range |-> "41-60", min |-> 41, max |-> 60],
    [range |-> "61-80", min |-> 61, max |-> 80],
    [range |-> "81-100", min |-> 81, max |-> 100]>>

\* score >= b.min && score <= b.max
inBin(score, b) == Le(Num(b.min), score) /\ Le(score, Num(b.max))

\* bins.find(...): the index of the first bin holding the score, 0 for none
findBin(score) ==
  IF \E k \in DOMAIN bins : inBin(score, bins[k])
  THEN MinOf({k \in DOMAIN bins : inBin(score, bins[k])})
  ELSE 0

\* the count of each bin after the forEach
data(sd) ==
  LET shown == filteredCompanies(sd)
  IN  [k \in DOMAIN bins |->
         [range |-> bins[k].range,
          count |-> Cardinality({i \in DOMAIN shown :
                                   findBin(shown[i].scores[sd.activeMetric]) = k})]]

\* only the score panel changes
OnlyScoreDistribution ==
  /\ UNCHANGED <<app, companyList, investorAnalysis, trendChart>>
  /\ UNCHANGED pipelineVars
  /\ UNCHANGED callVars

\* App renders the panel with the displayed companies
RenderScores(companies, currentYear) ==
  /\ ~scoreDistribution.rendered
  /\ scoreDistribution' = renderScoreDistribution(companies, currentYear)
  /\ OnlyScoreDistribution

setActiveMetric(metric) ==
  /\ scoreDistribution.rendered
  /\ scoreDistribution' = [scoreDistribution EXCEPT !.activeMetric = metric]
  /\ OnlyScoreDistribution

setSelectedProvince(prov) ==
  /\ scoreDistribution.rendered
  /\ scoreDistribution' = [scoreDistribution EXCEPT !.selectedProvince = prov]
  /\ OnlyScoreDistribution

\* the From input: Math.max(minYearLimit, Math.min(typed, yearRange.end))
setYearStart(typed) ==
  /\ scoreDistribution.rendered
  /\ scoreDistribution' =
       [scoreDistribution EXCEPT !.yearRange.start =
          LET capped == IF typed < scoreDistribution.yearRange.end
                        THEN typed ELSE scoreDistribution.yearRange.end
          IN  IF capped < minYearLimit THEN minYearLimit ELSE capped]
  /\ OnlyScoreDistribution

\* the To input: Math.min(maxYearLimit, Math.max(typed, yearRange.start))
setYearEnd(typed) ==
  /\ scoreDistribution.rendered
  /\ scoreDistribution' =
       [scoreDistribution EXCEPT !.yearRange.end =
          LET raised == IF typed > scoreDistribution.yearRange.start
                        THEN typed ELSE scoreDistribution.yearRange.start
          IN  IF raised > scoreDistribution.currentYear
              THEN scoreDistribution.currentYear ELSE raised]
  /\ OnlyScoreDistribution

NextDistribution ==
  \/ \E companies \in ScoredLists, currentYear \in ClockYears :
       RenderScores(companies, currentYear)
  \/ \E metric \in Range(METRICS) : setActiveMetric(metric)
  \/ \E prov \in Range(PROVINCES_LIST) : setSelectedProvince(prov)
  \/ \E typed \in TypedYears : setYearStart(typed)
  \/ \E typed \in TypedYears : setYearEnd(typed)

SpecDistribution == Init /\ [][NextDistribution]_vars

(***************************************************************************)
(* TrendChart: the selection of themes.                                    *)
(***************************************************************************)
\* the updater of toggleTheme without its guard on the last theme
toggledThemesEvenTheLast(prev, theme) ==
  IF theme \in Range(prev)
  THEN SelectSeq(prev, LAMBDA t : t # theme)
  ELSE Append(prev, theme)

\* the updater toggleTheme passes to setSelectedThemes
toggledThemes(prev, theme) ==
  IF theme \in Range(prev)
  THEN (IF Len(prev) = 1 THEN prev
        ELSE SelectSeq(prev, LAMBDA t : t # theme))
  ELSE Append(prev, theme)

\* only the trend chart changes
OnlyTrendChart ==
  /\ UNCHANGED <<app, companyList, investorAnalysis, scoreDistribution>>
  /\ UNCHANGED pipelineVars
  /\ UNCHANGED callVars

\* a click on the button of a theme
toggleTheme(theme) ==
  /\ trendChart' = [selectedThemes |-> toggledThemes(trendChart.selectedThemes, theme),
                    toggled |-> theme]
  /\ OnlyTrendChart

\* Reset to Show All, rendered while a theme is unselected
ResetToShowAll ==
  /\ Len(trendChart.selectedThemes) < Len(ThemeKeys)
  /\ trendChart' = [selectedThemes |-> ThemeKeys, toggled |-> Null]
  /\ OnlyTrendChart

NextTrendChart ==
  \/ \E theme \in Range(ThemeKeys) : toggleTheme(theme)
  \/ ResetToShowAll

SpecTrendChart == Init /\ [][NextTrendChart]_vars

(***************************************************************************)
(* The claims.                                                             *)
(***************************************************************************)
ScoreNames == {"funding", "operations", "brandTrend", "potential", "comprehensive"}

\* x is a number in [0,100]
InScoreRange(x) == Le(Num(0), x) /\ Le(x, Num(100))

Companies == result.companies

\* C1: every one of the five scores of every company processData returns is
\* a number in [0,100].
C1_ScoresInRange ==
  result.done =>
    \A k \in DOMAIN Companies : \A f \in ScoreNames : InScoreRange(Companies[k].scores[f])

\* C2: the comprehensive score of every returned company is the sum of its
\* funding, operations, brandTrend and potential scores divided by 4 (NaN when
\* one of the four is NaN), and it lies in [0,100] whenever the four do.
C2_ComprehensiveIsMean ==
  result.done =>
    \A k \in DOMAIN Companies :
       LET sc == Companies[k].scores
       IN  /\ sc.comprehensive =
                Div(Add(Add(Add(sc.funding, sc.operations), sc.brandTrend), sc.potential), Num(4))
           /\ (\A f \in ScoreNames \ {"comprehensive"} : InScoreRange(sc[f]))
                => InScoreRange(sc.comprehensive)

\* a processed batch of two with a company whose four scores are numbers,
\* nonzero and pairwise different
C2_Witness ==
  /\ result.done
  /\ Len(Companies) = 2
  /\ \E k \in DOMAIN Companies :
        LET sc == Companies[k].scores
        IN  /\ \A f \in ScoreNames : ~sc[f].nan /\ sc[f].n > 0
            /\ Cardinality({sc.funding, sc.operations, sc.brandTrend, sc.potential}) = 4

\* C3: processData returns one company per input record, with ids unique in
\* the batch, ordered by comprehensive score non-increasing.
C3_OnePerRecordSortedDesc ==
  result.done =>
    /\ Len(Companies) = Len(rawData)
    /\ \A i, j \in DOMAIN Companies : Companies[i].id = Companies[j].id => i = j
    /\ \E p \in [DOMAIN Companies -> DOMAIN rawData] :
          /\ \A i, j \in DOMAIN Companies : p[i] = p[j] => i = j
          /\ \A i \in DOMAIN Companies : Companies[i].raw = rawData[p[i]]
    /\ \A i \in 1..(Len(Companies) - 1) :
          Le(Companies[i + 1].scores.comprehensive, Companies[i].scores.comprehensive)

\* C4: no operation of the pipeline throws, whatever columns a record lacks.
C4_NoOperationThrows == ~threw

\* a text that does not start a number: after leading white space and a
\* sign there is no digit (and, for a decimal, no point followed by a digit)
StartsNumber(text, decimal) ==
  LET t == TrimStart(text)
      from == IF Len(t) > 0 /\ Char(t, 1) \in {"-", "+"} THEN 2 ELSE 1
  IN  \/ (from <= Len(t) /\ IsDigit(Char(t, from)))
      \/ (decimal /\ from + 1 <= Len(t) /\ Char(t, from) = "." /\ IsDigit(Char(t, from + 1)))

\* the raw field is absent, empty or not parseable as a number
NoNumberIn(c, col, decimal) ==
  col \notin DOMAIN c \/ c[col] = "" \/ ~StartsNumber(ReplaceAll(c[col], ",", ""), decimal)

\* C5: each derived numeric takes its default (amount 0, articles 0, rank
\* 100000, rounds 1) whenever the raw field is absent, empty or not parseable,
\* and is never a non-number.
C5_DefaultsForUnparseable ==
  result.done =>
    \A k \in DOMAIN Companies :
       LET c == Companies[k].raw
           d == Companies[k].derived
       IN  /\ ~d.fundAmt.nan /\ ~d.articles.nan /\ ~d.rank.nan /\ ~d.rounds.nan
           /\ NoNumberIn(c, "Total Funding Amount (in USD)", TRUE) => d.fundAmt = Num(0)
           /\ NoNumberIn(c, "Number of Articles", FALSE) => d.articles = Num(0)
           /\ NoNumberIn(c, "CB Rank (Company)", FALSE) => d.rank = Num(100000)
           /\ NoNumberIn(c, "Number of Funding Rounds", FALSE) => d.rounds = Num(1)

\* the lines of a text that hold a character other than white space
NonBlankLines(text) ==
  SelectSeq(Split(text, "\n"), LAMBDA l : \E i \in 1..Len(l) : ~IsSpace(Char(l, i)))

\* the quote-aware field count of a line: one more than its commas that have
\* an even number of quotes before them
QuoteAwareCount(line) ==
  1 + Cardinality({i \in 1..Len(line) :
        /\ Char(line, i) = ","
        /\ Cardinality({j \in 1..(i - 1) : Char(line, j) = "\""}) % 2 = 0})

\* the header's field count: one more than its commas
HeaderCount(line) == 1 + Cardinality({i \in 1..Len(line) : Char(line, i) = ","})

DataLines == IF NonBlankLines(csvText) = <<>> THEN <<>> ELSE Tail(NonBlankLines(csvText))

KeptLines ==
  IF NonBlankLines(csvText) = <<>> THEN <<>>
  ELSE SelectSeq(DataLines,
         LAMBDA l : QuoteAwareCount(l) = HeaderCount(NonBlankLines(csvText)[1]))

\* C6: parseCSV returns, in input order, one record for exactly the non-blank
\* data lines whose quote-aware field count is the header's field count; the
\* record of a kept line is the one the header and that line alone produce.
C6_RowsAreTheMatchingLines ==
  parsed.done =>
    /\ Len(parsed.rows) = Len(KeptLines)
    /\ \A i \in DOMAIN KeptLines :
          <<parsed.rows[i]>> = parseCSV(NonBlankLines(csvText)[1] \o "\n" \o KeptLines[i])

\* a parsed text with a data line that was kept and one that was dropped
C6_Witness ==
  /\ parsed.done
  /\ Len(parsed.rows) >= 1
  /\ Len(DataLines) > Len(parsed.rows)

\* C7: parsing the exported text gives as many records as companies were
\* exported.
C7_RoundTripCount ==
  (parsed.done /\ result.done) => Len(parsed.rows) = Len(Companies)

\* the row the exporter is to write for the company at 1-based position pos:
\* the five textual columns quoted with inner quotes doubled
QuotedRow(company, pos) ==
  LET c == company.raw
  IN  Join(<<NatToString(pos),
             Quoted(c["Organization Name"]),
             toFixed2(company.scores.comprehensive),
             toFixed2(company.scores.potential),
             toFixed2(company.scores.funding),
             toFixed2(company.scores.operations),
             toFixed2(company.scores.brandTrend),
             Quoted(OrElse(c, "Headquarters Location", "")),
             Quoted(OrElse(c, "Industries", "")),
             Quoted(IF Truthy(c, "Full Description") THEN c["Full Description"]
                    ELSE OrElse(c, "Description", "")),
             Quoted(OrElse(c, "Organization Name URL", ""))>>, ",")

\* C8: in every exported row each textual column (name, location, industries,
\* description, website) is wrapped in quotes with inner quotes doubled; the
\* rows follow the company sequence and Rank is the 1-based position.
C8_TextColumnsQuoted ==
  (result.done /\ csvText # "") =>
    csvText = Join(<<Join(ExportHeaders, ",")>>
                     \o [k \in DOMAIN Companies |-> QuotedRow(Companies[k], k)], "\n")

\* what the batch says of its investors: the names each record yields, and
\* for each name the number of its records (deals) and, per theme in the
\* fixed order, the number of its records that have the theme
InvestorsOfRecords == AsTuple([k \in DOMAIN rawData |-> Range(extractInvestors(rawData[k]))])

ThemesOfRecords == AsTuple([k \in DOMAIN rawData |-> detectThemes(rawData[k])])

BatchTallies ==
  LET names == InvestorsOfRecords
      themes == ThemesOfRecords
  IN  [name \in UNION Range(names) |->
         [deals |-> Cardinality({k \in DOMAIN rawData : name \in names[k]}),
          tally |-> AsTuple([t \in DOMAIN ThemeNames |->
                       Cardinality({k \in DOMAIN rawData :
                          name \in names[k] /\ themeFlag(themes[k], ThemeNames[t])})])]]

ThemeIndex(theme) == CHOOSE k \in DOMAIN ThemeNames : ThemeNames[k] = theme

\* with the tallies n of one investor, the theme at place a of the fixed order
\* ranks before the one at place b: a greater tally, or the same tally and an
\* earlier place
RanksBefore(n, a, b) == n[a] > n[b] \/ (n[a] = n[b] /\ a < b)

\* C9: topThemes has at most 3 entries, each with a nonzero tally, ordered by
\* tally non-increasing and by the fixed order among equal tallies; a theme
\* with a nonzero tally is left out only if three themes rank before it.
C9_TopThemes ==
  result.done =>
    LET batch == BatchTallies
    IN  \A e \in Range(result.investors) :
           LET n == batch[e.name].tally
               top == AsTuple([i \in DOMAIN e.topThemes |-> ThemeIndex(e.topThemes[i])])
           IN  /\ Len(top) <= 3
               /\ \A i \in DOMAIN top : n[top[i]] > 0
               /\ \A i, j \in DOMAIN top : i < j => RanksBefore(n, top[i], top[j])
               /\ \A t \in DOMAIN ThemeNames \ Range(top) :
                     n[t] > 0 => (Len(top) = 3 /\ \A i \in DOMAIN top : RanksBefore(n, top[i], t))

\* an investor whose first theme is not the first of its themes in the fixed
\* order, and who has a theme with a nonzero tally that was left out
C9_Witness ==
  /\ result.done
  /\ \E e \in Range(result.investors) :
        /\ Len(e.topThemes) = 3
        /\ ThemeIndex(e.topThemes[1]) > ThemeIndex(e.topThemes[2])
        /\ \E t \in DOMAIN ThemeNames :
              ThemeNames[t] \notin Range(e.topThemes) /\ BatchTallies[e.name].tally[t] > 0

\* C10: the investors list is ordered by count non-increasing, has at most 50
\* entries, each with count >= 1, and no investor left out has a count greater
\* than that of an investor in the list.
C10_TopInvestors ==
  result.done =>
    LET batch == BatchTallies
        list == result.investors
        listed == {list[i].name : i \in DOMAIN list}
    IN  /\ Len(list) <= 50
        /\ \A i \in DOMAIN list : list[i].count >= 1
        /\ \A i \in 1..(Len(list) - 1) : list[i].count >= list[i + 1].count
        /\ \A name \in DOMAIN batch \ listed :
              \A i \in DOMAIN list : batch[name].deals <= list[i].count

\* a batch with more than 50 investors, of which one outside the first 50
\* found has more deals than the others
C10_Witness ==
  /\ result.done
  /\ Cardinality(DOMAIN BatchTallies) > 50
  /\ Len(result.investors) = 50
  /\ result.investors[1].count > result.investors[50].count
  /\ result.investors[1].name = "Fund 51"

\* the calendar year a record's founding date states (YYYY-MM-DD or
\* M/D/YYYY), 0 when the date is missing or is not a date
StatedYear(c) ==
  IF ~Truthy(c, "Founded Date") THEN 0
  ELSE LET iso == Split(c["Founded Date"], "-")
           us == Split(c["Founded Date"], "/")
       IN  IF Len(iso) = 3 /\ \A k \in 1..3 : IsDigits(iso[k]) THEN NatOf(iso[1])
           ELSE IF Len(us) = 3 /\ \A k \in 1..3 : IsDigits(us[k]) THEN NatOf(us[3])
           ELSE 0

StatedYears == AsTuple([k \in DOMAIN rawData |-> StatedYear(rawData[k])])

TrendYears == AsTuple([i \in DOMAIN result.trends |-> result.trends[i].year])

\* C11: the trends hold one entry for each distinct founding year y with
\* 1990 < y <= current year among the input companies and no other entry, in
\* strictly ascending order of year.
C11_TrendYears ==
  result.done =>
    /\ \A i \in 1..(Len(TrendYears) - 1) : TrendYears[i] < TrendYears[i + 1]
    /\ \E currentYear \in ClockYears :
          Range(TrendYears) = {y \in Range(StatedYears) : 1990 < y /\ y <= currentYear}

\* x rounded to one decimal
RoundedToTenth(x) == Rat((2 * x.n * 10 + x.d) \div (2 * x.d), 10)

\* C12: every percentage of a trend entry is 100 x (companies founded in the
\* entry's year that have the theme) / (companies founded in that year),
\* rounded to one decimal, and lies in [0,100].
C12_TrendPercentages ==
  result.done =>
    \A e \in Range(result.trends) :
       LET founded == {k \in DOMAIN rawData : StatedYears[k] = e.year}
       IN  /\ founded # {}
           /\ \A t \in DOMAIN ThemeNames :
                 LET having == {k \in founded : themeFlag(ThemesOfRecords[k], ThemeNames[t])}
                 IN  /\ e[ThemeNames[t]] =
                          RoundedToTenth(Div(Num(100 * Cardinality(having)),
                                             Num(Cardinality(founded))))
                     /\ Le(Num(0), e[ThemeNames[t]]) /\ Le(e[ThemeNames[t]], Num(100))

\* the record's founding date is missing, unparseable or, by some clock,
\* outside (1990, current year]
OutsideTrends(c) ==
  \E currentYear \in ClockYears : ~(1990 < StatedYear(c) /\ StatedYear(c) <= currentYear)

EqualsIgnoringCase(a, b) ==
  /\ Len(a) = Len(b)
  /\ \A i \in 1..Len(a) :
        \/ Char(a, i) = Char(b, i)
        \/ \E k \in 1..26 : {Char(a, i), Char(b, i)} = {Char(UpperAZ, k), Char(LowerAZ, k)}

\* the record is of a closed or acquired company: its Operating Status is
\* "closed" or "acquired" ignoring case, or its "Acquired by" has more than
\* one character
ClosedOrAcquired(c) ==
  \/ /\ "Operating Status" \in DOMAIN c
     /\ \E st \in {"closed", "acquired"} : EqualsIgnoringCase(c["Operating Status"], st)
  \/ ("Acquired by" \in DOMAIN c /\ Len(c["Acquired by"]) > 1)

\* C14: acquisitionStatus is set, with isAcquiredOrClosed true, exactly on the
\* companies that are closed or acquired; on every other company it is not
\* set.
C14_StatusExactlyWhenClosedOrAcquired ==
  result.done =>
    \A i \in DOMAIN Companies :
       LET st == Companies[i].acquisitionStatus
       IN  /\ st.defined <=> ClosedOrAcquired(Companies[i].raw)
           /\ st.defined => st.isAcquiredOrClosed
           /\ ~st.defined => st = NoAcquisitionStatus

\* a processed batch with a company that is acquired by its acquirer's name
\* alone and one whose status is set by an upper-case operating status
C14_Witness ==
  /\ result.done
  /\ \E i, j \in DOMAIN Companies :
        /\ Companies[i].acquisitionStatus.defined
        /\ OrElse(Companies[i].raw, "Operating Status", "") = "Active"
        /\ Companies[j].acquisitionStatus.defined
        /\ OrElse(Companies[j].raw, "Operating Status", "") = "CLOSED"

\* digits, or digits in comma-separated groups of three
GroupedNumber(s) ==
  LET groups == Split(s, ",")
  IN  /\ \A k \in DOMAIN groups : IsDigits(groups[k])
      /\ Len(groups) > 1 =>
            Len(groups[1]) <= 3 /\ \A k \in 2..Len(groups) : Len(groups[k]) = 3

\* the number a grouped number states
StatedNumber(s) == NatOf(ReplaceAll(s, ",", ""))

\* the headcount is of the form "N+", "A-B" or "N"
PlusForm(s) == Len(s) > 1 /\ Char(s, Len(s)) = "+" /\ GroupedNumber(SubSeq(s, 1, Len(s) - 1))
RangeForm(s) == Len(Split(s, "-")) = 2 /\ \A k \in 1..2 : GroupedNumber(Split(s, "-")[k])

\* the median the forms stand for
Median(s) ==
  IF PlusForm(s) THEN Num(StatedNumber(SubSeq(s, 1, Len(s) - 1)) + 10)
  ELSE IF RangeForm(s)
       THEN Rat(StatedNumber(Split(s, "-")[1]) + StatedNumber(Split(s, "-")[2]), 2)
       ELSE Num(StatedNumber(s))

\* C15: parseEmployeeCount gives N + 10 for "N+", (A + B) / 2 for "A-B", N for
\* a bare number N and 0 for an absent or empty value, with comma grouping
\* stripped before parsing in every form.
C15_EmployeeMedian ==
  returned.done =>
    IF args = <<>> \/ args = <<"">> THEN returned.value = Num(0)
    ELSE (PlusForm(args[1]) \/ RangeForm(args[1]) \/ GroupedNumber(args[1]))
            => returned.value = Median(args[1])

\* the number the digits before the first comma state
LeadingNumber(s) == NatOf(Split(s, ",")[1])

\* C15, amended: parseEmployeeCount gives N + 10 for "N+", (A + B) / 2 for
\* "A-B", N for a bare number N and 0 for an absent or empty value, where
\* comma grouping is stripped in the form "A-B" only: in "N+" and in a bare
\* number, N is the number before the first comma.
C15_EmployeeMedianAsParsed ==
  returned.done =>
    IF args = <<>> \/ args = <<"">> THEN returned.value = Num(0)
    ELSE LET s == args[1]
         IN  /\ PlusForm(s) => returned.value = Num(LeadingNumber(s) + 10)
             /\ RangeForm(s) => returned.value = Median(s)
             /\ GroupedNumber(s) => returned.value = Num(LeadingNumber(s))

\* the helper called on a comma-grouped "N+" or a comma-grouped range
C15_Witness ==
  /\ returned.done
  /\ args # <<>>
  /\ Includes(args[1], ",")
  /\ PlusForm(args[1]) \/ RangeForm(args[1])

\* the ranks and the article counts of the batch, and its bounds
BatchRanks == AsTuple([k \in DOMAIN Companies |-> Companies[k].derived.rank])
BatchArticles == AsTuple([k \in DOMAIN Companies |-> Companies[k].derived.articles])
BatchMinRank == MathMin(BatchRanks, Num(1))
BatchMaxRank == MathMax(BatchRanks, Num(100000))
BatchMaxArticles == MathMax(BatchArticles, Num(1))

\* 100 x min(1, 0.5 x (1 - normalize(rank, ...)) + 0.3 x normalize(articles,
\* ...) + bonus) for a company of the batch
BrandTrendWith(company, bonus) ==
  Mul(Num(100),
      Min2(Num(1),
           Add(Add(Mul(Rat(1, 2),
                       Sub(Num(1),
                           normalize(company.derived.rank, BatchMinRank, BatchMaxRank))),
                   Mul(Rat(3, 10),
                       normalize(company.derived.articles, Num(0), BatchMaxArticles))),
               bonus)))

\* 0.2 if any of the six theme flags is true, 0 otherwise
KeywordBonus(company) ==
  IF \E t \in DOMAIN ThemeNames : themeFlag(company.themes, ThemeNames[t])
  THEN Rat(1, 5) ELSE Num(0)

\* C16: brandTrend is 100 x min(1, 0.5 x (1 - normalize(rank, batchMinRank,
\* batchMaxRank)) + 0.3 x normalize(articleCount, 0, batchMaxArticles)
\* + 0.2 x keywordBonus), keywordBonus being 0.2 with a theme and 0 without.
C16_BrandTrendFormula ==
  result.done =>
    \A k \in DOMAIN Companies :
       Companies[k].scores.brandTrend =
         BrandTrendWith(Companies[k], Mul(Rat(1, 5), KeywordBonus(Companies[k])))

\* C16, amended: brandTrend is 100 x min(1, 0.5 x (1 - normalize(rank,
\* batchMinRank, batchMaxRank)) + 0.3 x normalize(articleCount, 0,
\* batchMaxArticles) + keywordBonus): the bonus of 0.2 is added in full.
C16_BrandTrendBonusInFull ==
  result.done =>
    \A k \in DOMAIN Companies :
       Companies[k].scores.brandTrend = BrandTrendWith(Companies[k], KeywordBonus(Companies[k]))

\* a processed batch of a company with a theme and one without, of different
\* ranks and article counts, both with a brandTrend score that is a number
C16_Witness ==
  /\ result.done
  /\ \E i, j \in DOMAIN Companies :
        /\ KeywordBonus(Companies[i]) # Num(0)
        /\ KeywordBonus(Companies[j]) = Num(0)
        /\ ~Companies[i].scores.brandTrend.nan
        /\ ~Companies[j].scores.brandTrend.nan
        /\ Companies[i].scores.brandTrend.n > 0
        /\ Companies[i].derived.articles.n > 0

\* a text contains another, ignoring case
ContainsIgnoringCase(text, sub) ==
  \E i \in 1..(Len(text) - Len(sub) + 1) :
     EqualsIgnoringCase(SubSeq(text, i, i + Len(sub) - 1), sub)

\* the stage score of the first rule the funding-stage label matches
FirstMatchingStage(c) ==
  LET label == IF "Last Funding Type" \in DOMAIN c THEN c["Last Funding Type"] ELSE ""
  IN  IF ContainsIgnoringCase(label, "series a") THEN Rat(7, 10)
      ELSE IF ContainsIgnoringCase(label, "series b") \/ ContainsIgnoringCase(label, "series c")
           THEN Rat(9, 10)
           ELSE IF ContainsIgnoringCase(label, "ipo") \/ ContainsIgnoringCase(label, "acquired")
                THEN Rat(1, 2)
                ELSE Rat(3, 10)

\* C17: the stage score in the potential score is that of the first rule the
\* funding-stage label matches, in the order "series a" (0.7), "series b" or
\* "series c" (0.9), "ipo" or "acquired" (0.5), otherwise 0.3.
C17_FirstMatchingStage ==
  result.done =>
    \A k \in DOMAIN Companies :
       LET sc == Companies[k].scores
       IN  sc.potential =
             Mul(Num(100),
                 Add(Add(Mul(Rat(2, 5), FirstMatchingStage(Companies[k].raw)),
                         Mul(Rat(3, 10), Div(sc.funding, Num(100)))),
                     Mul(Rat(3, 10), Div(sc.brandTrend, Num(100)))))

\* the two description fields of a record, as written
Descriptions(c) ==
  <<IF "Description" \in DOMAIN c THEN c["Description"] ELSE "",
    IF "Full Description" \in DOMAIN c THEN c["Full Description"] ELSE "">>

ScenarioDescription == "AI-powered SaaS platform for enterprise workflow automation"

\* one keyword of each of five themes
ThemeKeyword ==
  ("Climate" :> "solar") @@ ("Fintech" :> "payment") @@ ("Healthcare" :> "health")
    @@ ("SaaS" :> "saas") @@ ("Consumer" :> "retail")

\* C18: the six theme flags depend on Description and Full Description only
\* and are independent of each other: a keyword of a theme in either field,
\* in any case, sets the theme's flag whatever the other flags; without text
\* no flag is set; the scenario's description sets ai and saas and no other.
C18_ThemeFlags ==
  result.done =>
    /\ \A i, j \in DOMAIN Companies :
          Descriptions(Companies[i].raw) = Descriptions(Companies[j].raw)
            => Companies[i].themes = Companies[j].themes
    /\ \A i \in DOMAIN Companies :
          LET d == Descriptions(Companies[i].raw)
              th == Companies[i].themes
          IN  /\ \A name \in DOMAIN ThemeKeyword :
                    (\E k \in 1..2 : ContainsIgnoringCase(d[k], ThemeKeyword[name]))
                       => themeFlag(th, name)
              /\ d = <<"", "">> => \A name \in Range(ThemeNames) : ~themeFlag(th, name)
              /\ d = <<ScenarioDescription, "">> =>
                    \A name \in Range(ThemeNames) : themeFlag(th, name) <=> name \in {"AI", "SaaS"}

\* a processed batch of the scenario's company, with its two flags, and a
\* company with four flags
C18_Witness ==
  /\ result.done
  /\ \E i, j \in DOMAIN Companies :
        /\ Descriptions(Companies[i].raw) = <<ScenarioDescription, "">>
        /\ activeThemes(Companies[i].themes) = <<"AI", "SaaS">>
        /\ Len(activeThemes(Companies[j].themes)) = 4

\* C19: normalize(v, min, max) is 0 when max = min, and for finite v, min and
\* max with min <= v <= max it is a number in [0,1], never NaN.
C19_NormalizeInUnitRange ==
  returned.done =>
    LET v == args[1]
        min == args[2]
        max == args[3]
    IN  /\ StrictEq(max, min) => returned.value = Num(0)
        /\ (IsFinite(v) /\ IsFinite(min) /\ IsFinite(max) /\ Le(min, v) /\ Le(v, max))
             => /\ ~IsNaN(returned.value)
                /\ Le(Num(0), returned.value)
                /\ Le(returned.value, Num(1))

\* the three text fields the response of fn is asked for
RequiredFields(fn) ==
  IF fn = "generateInvestmentAnalysis"
  THEN {"executiveSummary", "investmentVerdict", "competitiveEdge"}
  ELSE IF fn = "generateInvestorInternalAnalysis"
  THEN {"investmentThesis", "portfolioComposition", "strategicFocus"}
  ELSE {}

\* text is not a JSON object with the three required text fields of fn
Malformed(text, fn) ==
  LET parsedText == JSONParse(text)
  IN  \/ ~parsedText.ok
      \/ parsedText.value.type # "object"
      \/ \E k \in RequiredFields(fn) :
           \/ k \notin DOMAIN parsedText.value.fields
           \/ parsedText.value.fields[k].type # "string"

\* the API key is missing, the request failed, or the response text is
\* empty or, where JSON is asked for, malformed
FailedGeneration ==
  \/ ~request.apiKey
  \/ request.outcome = "failed"
  \/ /\ request.outcome = "responded"
     /\ \/ ~hasText(request.text)
        \/ /\ args[1] # "generateLiveIntelligence"
           /\ Malformed(request.text.value, args[1])

\* C20: each of generateInvestmentAnalysis, generateInvestorInternalAnalysis
\* and generateLiveIntelligence resolves and never rejects, and when the API
\* key is missing, the request fails, or the response text is empty or
\* malformed it resolves to the fixed placeholder payload of that function.
C20_PlaceholderOnFailure ==
  /\ request.promise # "rejected"
  /\ returned.done =>
       /\ request.promise = "fulfilled"
       /\ FailedGeneration => returned.value = caught(args[1])

\* the companies, trends and investors displayed are those of one processing
\* of these files
DisplayedFrom(filesContent) ==
  \E processed \in processedOf[filesContent] :
    /\ app.data.companies = processed.companies
    /\ app.data.trends = processed.trends
    /\ app.data.investors = processed.investors

NothingDisplayed ==
  app.data.companies = <<>> /\ app.data.trends = <<>> /\ app.data.investors = <<>>

BatchBounds == batchBounds(processedTemp(rawData))

\* min <= x <= max
Within(x, min, max) == Le(min, x) /\ Le(x, max)

\* C22: in processData every value passed to normalize lies within the bounds
\* it is normalized against, and the bounds differ: amount in [minFund,
\* maxFund], rounds in [0, maxRounds], rank in [minRank, maxRank], articles in
\* [0, maxArticles], max > min, for any batch, so every normalized term is in
\* [0,1].
C22_NormalizedWithinBounds ==
  result.done =>
    LET b == BatchBounds
    IN  /\ Lt(b.minFund, b.maxFund)
        /\ Lt(Num(0), b.maxRounds)
        /\ Lt(b.minRank, b.maxRank)
        /\ Lt(Num(0), b.maxArticles)
        /\ \A i \in DOMAIN Companies :
             LET t == Companies[i].derived
             IN  /\ Within(t.fundAmt, b.minFund, b.maxFund)
                 /\ Within(t.rounds, Num(0), b.maxRounds)
                 /\ Within(t.rank, b.minRank, b.maxRank)
                 /\ Within(t.articles, Num(0), b.maxArticles)
                 /\ Within(normalize(t.fundAmt, b.minFund, b.maxFund), Num(0), Num(1))
                 /\ Within(normalize(t.rounds, Num(0), b.maxRounds), Num(0), Num(1))
                 /\ Within(normalize(t.rank, b.minRank, b.maxRank), Num(0), Num(1))
                 /\ Within(normalize(t.articles, Num(0), b.maxArticles), Num(0), Num(1))

\* MM/YYYY of the calendar date a column states (YYYY-MM-DD or M/D/YYYY), ""
\* when the column is missing or is not a date
StatedMonthYear(c, col) ==
  IF ~Truthy(c, col) THEN ""
  ELSE LET iso == Split(c[col], "-")
           us == Split(c[col], "/")
       IN  IF Len(iso) = 3 /\ \A k \in 1..3 : IsDigits(iso[k]) THEN iso[2] \o "/" \o iso[1]
           ELSE IF Len(us) = 3 /\ \A k \in 1..3 : IsDigits(us[k])
                THEN padStart2(NatOf(us[1])) \o "/" \o us[3]
                ELSE ""

\* the label with its date suffix, the suffix left out when there is no date
Dated(label, monthYear) == IF monthYear = "" THEN label ELSE label \o " " \o monthYear

\* "Closed MM/YYYY" for a closed company, else "Acquired by X MM/YYYY" ("by X"
\* left out when no acquirer is named)
StatedLabel(c) ==
  IF "Operating Status" \in DOMAIN c /\ EqualsIgnoringCase(c["Operating Status"], "closed")
  THEN Dated("Closed", StatedMonthYear(c, "Closed Date"))
  ELSE Dated("Acquired" \o (IF Truthy(c, "Acquired by") THEN " by " \o c["Acquired by"] ELSE ""),
             StatedMonthYear(c, "Exit Date"))

\* C23: the label of acquisitionStatus is "Closed MM/YYYY" (from Closed Date)
\* whenever Operating Status is "closed" ignoring case, also when an acquirer
\* is named, and otherwise "Acquired by X MM/YYYY" (from Exit Date); without a
\* date that parses the suffix is left out and the label has no trailing or
\* doubled whitespace.
C23_StatusLabel ==
  result.done =>
    \A i \in DOMAIN Companies :
       Companies[i].acquisitionStatus.defined =>
         Companies[i].acquisitionStatus.label = StatedLabel(Companies[i].raw)

\* the comma-separated entries of the three investor fields of a record,
\* trimmed and without their wrapping quotes
InvestorEntries(row) ==
  UNION {{StripQuotes(Trim(piece)) : piece \in Range(Split(row[col], ","))} :
           col \in Range(InvestorColumns) \cap DOMAIN row}

\* a name the list keeps: three characters or more and no "undisclosed"
KeptName(name) == Len(name) >= 3 /\ ~ContainsIgnoringCase(name, "undisclosed")

\* C24: extractInvestors returns a list without duplicates whose names are
\* exactly the trimmed, quote-stripped comma-separated entries of Top 5
\* Investors, Lead Investors and Investors that have at least 3 characters and
\* do not contain "undisclosed" in any letter case; a record with none of the
\* three fields gives the empty list.
C24_ExtractedInvestors ==
  returned.done =>
    LET row == args[1]
        names == returned.value
    IN  /\ \A i, j \in DOMAIN names : i # j => names[i] # names[j]
        /\ Range(names) = {name \in InvestorEntries(row) : KeptName(name)}
        /\ (Range(InvestorColumns) \cap DOMAIN row = {}) => names = <<>>

\* a record with a quoted and an unquoted entry of one name, an undisclosed
\* entry and a short one, from two fields, gave two names
C24_Witness ==
  /\ returned.done
  /\ DOMAIN args[1] = {"Lead Investors", "Investors"}
  /\ args[1]["Lead Investors"] = "UNDISCLOSED investor, abc"
  /\ args[1]["Investors"] = "\"Gamma LLC\",Gamma LLC"
  /\ returned.value = <<"abc", "Gamma LLC">>

\* C25: for every investor of the result, count is the number of input records
\* whose extracted investor list holds the name, and the portfolio has exactly
\* one entry for each distinct Organization Name among those records, so the
\* portfolio is no longer than count.
C25_CountAndPortfolio ==
  result.done =>
    LET names == InvestorsOfRecords
        orgNames == AsTuple([k \in DOMAIN rawData |-> orgName(rawData[k])])
    IN  \A i \in DOMAIN result.investors :
           LET investor == result.investors[i]
               portfolio == investor.portfolio
               deals == {k \in DOMAIN rawData : investor.name \in names[k]}
           IN  /\ investor.count = Cardinality(deals)
               /\ {portfolio[k].name : k \in DOMAIN portfolio} = {orgNames[k] : k \in deals}
               /\ \A j, k \in DOMAIN portfolio : j # k => portfolio[j].name # portfolio[k].name
               /\ Len(portfolio) <= investor.count

\* an investor of two records of one company name: count 2, one portfolio entry
C25_Witness ==
  /\ result.done
  /\ Len(rawData) = 2
  /\ orgName(rawData[1]) = orgName(rawData[2])
  /\ \E i \in DOMAIN result.investors :
        /\ result.investors[i].count = 2
        /\ Len(result.investors[i].portfolio) = 1

\* the positions of the commas of a line that are outside quotes
Delimiters(line) ==
  {i \in 1..Len(line) :
     /\ Char(line, i) = ","
     /\ Cardinality({j \in 1..(i - 1) : Char(line, j) = "\""}) % 2 = 0}

\* the raw field texts of a line: what lies between its delimiters
RawFields(line) ==
  LET cuts == Delimiters(line) \cup {0, Len(line) + 1}
      starts == {i \in cuts : i <= Len(line)}
      NextCut(i) == CHOOSE j \in cuts : j > i /\ \A k \in cuts : k > i => j <= k
      Before(i) == Cardinality({j \in starts : j < i})
  IN  [n \in 1..Cardinality(starts) |->
         LET i == CHOOSE j \in starts : Before(j) = n - 1
         IN  SubSeq(line, i + 1, NextCut(i) - 1)]

\* a text without its one pair of wrapping quotes, if it has one
Unwrapped(s) ==
  IF Len(s) >= 2 /\ Char(s, 1) = "\"" /\ Char(s, Len(s)) = "\""
  THEN SubSeq(s, 2, Len(s) - 1)
  ELSE s

\* the fields of a line: each raw field trimmed and unwrapped
StatedFields(line) ==
  LET raw == RawFields(line) IN AsTuple([n \in DOMAIN raw |-> Unwrapped(Trim(raw[n]))])

\* C26: for every data line, each field parseCSV produces is the raw field
\* text trimmed and with one pair of wrapping quotes stripped if present; a
\* comma inside an open quote stays part of the field, and the other
\* characters of the field are preserved.
C26_FieldsTrimmedAndUnwrapped ==
  parsed.done =>
    \A i \in DOMAIN KeptLines :
       i \in DOMAIN parsed.rows =>
         parsed.rows[i] = rowObject(csvHeaders(NonBlankLines(csvText)[1]), StatedFields(KeptLines[i]))

\* C27: in CompanyList, after any sequence of page changes, go-to-page
\* entries, rows-per-page changes, search edits and sort clicks, the current
\* page lies between 1 and max(1, totalPages), so that the visible page has
\* a row whenever the filtered list has one.
C27_CurrentPageInRange ==
  LET pages == totalPages(companyList)
  IN /\ 1 <= companyList.currentPage
     /\ companyList.currentPage <= (IF pages < 1 THEN 1 ELSE pages)
     /\ (filteredAndSortedCompanies(companyList) # <<>>
           => paginatedCompanies(companyList) # <<>>)

\* the loading flag a kind of request sets in its component
LoadingFlag(component, kind) ==
  CASE kind = "analysis" -> component.loadingAnalysis
    [] kind = "intel" -> component.loadingIntel
    [] kind = "internal" -> component.loadingInternal

\* each request awaited in the component has its item in its loading flag
\* and is the only one awaited for that item
OwnButtonDisabled(component) ==
  \A r \in BagToSet(component.pending) :
    /\ LoadingFlag(component, r.kind) = r.item
    /\ CopiesIn(r, component.pending) = 1

\* C28: in CompanyList and InvestorAnalysis, for any interleaving of
\* requests on different companies or investors, a generate or search
\* request in flight keeps its own button disabled (the loading flag is the
\* item's id or name) from its start until its result is stored, so that no
\* second request for the same item starts while the first is pending.
C28_PendingRequestKeepsButtonDisabled ==
  OwnButtonDisabled(companyList) /\ OwnButtonDisabled(investorAnalysis)

RECURSIVE SumCounts(_)
SumCounts(counted) ==
  IF counted = <<>> THEN 0
  ELSE counted[1].count + SumCounts(Tail(counted))

\* C29: in ScoreDistribution, for every selected metric and filter setting,
\* every filtered company is counted in exactly one of the five score bins,
\* so that the bin counts sum to the number of filtered companies, for every
\* score in [0, 100], non-integer scores included.
C29_EveryCompanyInOneBin ==
  LET shown == filteredCompanies(scoreDistribution)
  IN  /\ \A i \in DOMAIN shown :
           Cardinality({k \in DOMAIN bins :
                          inBin(shown[i].scores[scoreDistribution.activeMetric], bins[k])}) = 1
      /\ SumCounts(data(scoreDistribution)) = Len(shown)

\* a non-empty list of themes of the six, none twice
ValidSelection(selected) ==
  /\ selected # <<>>
  /\ Range(selected) \subseteq Range(ThemeKeys)
  /\ \A i, j \in DOMAIN selected : selected[i] = selected[j] => i = j

\* what a toggle of the theme is to do to the selection
StatedToggle(before, after, theme) ==
  IF theme \in Range(before)
  THEN (IF Cardinality(Range(before)) = 1 THEN after = before
        ELSE Range(after) = Range(before) \ {theme})
  ELSE Range(after) = Range(before) \cup {theme}

\* C30: in TrendChart, after any sequence of toggleTheme and reset-to-show-all
\* actions, selectedThemes is a non-empty duplicate-free subset of the six
\* themes: toggling the only selected theme leaves the selection unchanged,
\* toggling a selected theme otherwise removes it, and toggling an unselected
\* theme adds it.
C30_SelectionStaysValid ==
  /\ [](ValidSelection(trendChart.selectedThemes))
  /\ [][trendChart'.toggled # Null =>
          StatedToggle(trendChart.selectedThemes, trendChart'.selectedThemes,
                       trendChart'.toggled)]_vars

\* the only selected theme was toggled
C30_Witness ==
  /\ trendChart.toggled # Null
  /\ trendChart.selectedThemes = <<trendChart.toggled>>

====
